---- MODULE Spec2Model ----
(***************************************************************************)
(* Model of the tfs-hours server (src/server.js) over its three tables     *)
(* (src/unnamed/part_001): the ingest transaction                          *)
(* POST /api/tfs-hours-sync, the delta reconstruction queries              *)
(* (summary, entries, export) and the report-timezone range resolution.    *)
(*                                                                         *)
(* Instants are integers counting minutes since 1970-01-01T00:00Z (the     *)
(* source counts milliseconds; seconds and milliseconds are not            *)
(* represented).  NULL stands for SQL NULL / JS null / undefined; it is   *)
(* an integer outside every domain of the model, so that a nullable number *)
(* can be compared with it.                                                *)
(***************************************************************************)
EXTENDS Integers, Sequences, FiniteSets, Bags, TLC

NULL == -999999999

\* ------------------------------------------------------------------------
\* Bounds of the model
\* ------------------------------------------------------------------------
\* ingest calls handled in one behaviour
MaxRuns == 2
\* rows posted over one behaviour, all calls together
MaxRows == 3
\* rows of one posted batch
MaxBatch == 3
\* ingest calls handled in one behaviour of the report specification
MaxReportRuns == 3
\* ingest calls handled in one behaviour of the range specification
MaxRangeRuns == 2
\* ingest calls handled in one behaviour of the authorization specification
MaxAuthRuns == 2
\* ingest calls handled in one behaviour of the interleaving specification
MaxTxRuns == 2
\* ingest calls handled in one behaviour of the query specification
MaxQueryRuns == 4
\* the page sizes of entries, 5000 at most and 500 by default, scaled
EntriesMaxLimit == 3
EntriesDefaultLimit == 2
\* the page sizes of latest, 2000 at most and 200 by default, scaled
LatestMaxLimit == 2
LatestDefaultLimit == 1

\* rows of one chunk of a batch: chunkArray(rows, 200) of the source, scaled
\* down so that a batch of MaxBatch rows spans two chunks
ChunkSize == 2

MinutesPerDay == 1440

\* ------------------------------------------------------------------------
\* Calendar arithmetic (proleptic Gregorian, as ECMAScript Date and
\* PostgreSQL timestamptz use it)
\* ------------------------------------------------------------------------
\* days since 1970-01-01 of the civil date y-m-d, m in 1..12 (MakeDay)
DaysFromCivil(y, m, d) ==
  LET yy  == IF m <= 2 THEN y - 1 ELSE y
      era == yy \div 400
      yoe == yy - era * 400
      mp  == (m + 9) % 12
      doy == (153 * mp + 2) \div 5 + d - 1
      doe == yoe * 365 + yoe \div 4 - yoe \div 100 + doy
  IN  era * 146097 + doe - 719468

\* the civil date <<y, m, d>> of a day number
CivilFromDays(z) ==
  LET zz  == z + 719468
      era == zz \div 146097
      doe == zz - era * 146097
      yoe == (doe - doe \div 1460 + doe \div 36524 - doe \div 146096) \div 365
      doy == doe - (365 * yoe + yoe \div 4 - yoe \div 100)
      mp  == (5 * doy + 2) \div 153
      d   == doy - (153 * mp + 2) \div 5 + 1
      m   == IF mp < 10 THEN mp + 3 ELSE mp - 9
      y   == yoe + era * 400
  IN  << IF m <= 2 THEN y + 1 ELSE y, m, d >>

\* Date.UTC(y, monthIndex, d, 0, 0, 0, 0) in minutes: years 0..99 mean
\* 1900..1999, and a month index or a day outside the calendar carries over
\* into the neighbouring year or month instead of failing.
DateUTC(y, monthIndex, d) ==
  LET yr == IF y >= 0 /\ y <= 99 THEN 1900 + y ELSE y
      ym == yr + monthIndex \div 12
      mn == monthIndex % 12
  IN  (DaysFromCivil(ym, mn + 1, 1) + d - 1) * MinutesPerDay

\* the instant y-mo-d T h:mi Z
Instant(y, mo, d, h, mi) == DaysFromCivil(y, mo, d) * MinutesPerDay + h * 60 + mi

\* ------------------------------------------------------------------------
\* Strings: a string is a sequence of one-character strings
\* ------------------------------------------------------------------------
Digits == << "0", "1", "2", "3", "4", "5", "6", "7", "8", "9" >>

IsDigit(c) == \E i \in 1..10 : Digits[i] = c

DigitVal(c) == (CHOOSE i \in 1..10 : Digits[i] = c) - 1

IsSpace(c) == c = " "

\* String.prototype.trim
RECURSIVE TrimLeft(_)
TrimLeft(s) ==
  IF s # << >> /\ IsSpace(Head(s)) THEN TrimLeft(Tail(s)) ELSE s

RECURSIVE TrimRight(_)
TrimRight(s) ==
  IF s # << >> /\ IsSpace(s[Len(s)]) THEN TrimRight(SubSeq(s, 1, Len(s) - 1)) ELSE s

Trim(s) == TrimRight(TrimLeft(s))

\* Number() of a string of decimal digits
RECURSIVE NumberOfDigits(_)
NumberOfDigits(s) ==
  IF s = << >> THEN 0
  ELSE 10 * NumberOfDigits(SubSeq(s, 1, Len(s) - 1)) + DigitVal(s[Len(s)])

\* ------------------------------------------------------------------------
\* Range resolution (server.js:84-125)
\* ------------------------------------------------------------------------
\* parseYmd's null
NoYmd == [ y |-> NULL, mo |-> NULL, d |-> NULL ]

\* rangeFromToUtc's null
NoRange == [ fromUtc |-> NULL, toExclusiveUtc |-> NULL ]

\* parseYmd: /^(\d{4})-(\d{2})-(\d{2})$/ on the trimmed string; the three
\* numbers, or NoYmd when the shape does not match
parseYmd(s) ==
  LET t == Trim(s)
  IN  IF /\ Len(t) = 10
         /\ t[5] = "-"
         /\ t[8] = "-"
         /\ \A i \in {1, 2, 3, 4, 6, 7, 9, 10} : IsDigit(t[i])
      THEN [ y  |-> NumberOfDigits(SubSeq(t, 1, 4)),
             mo |-> NumberOfDigits(SubSeq(t, 6, 7)),
             d  |-> NumberOfDigits(SubSeq(t, 9, 10)) ]
      ELSE NoYmd

\* localMidnightToUtcDate: UTC midnight of the date minus the offset
localMidnightToUtcDate(dateStr, offsetMinutes) ==
  LET p == parseYmd(dateStr)
  IN  IF p = NoYmd THEN NULL
      ELSE DateUTC(p.y, p.mo - 1, p.d) - offsetMinutes

\* rangeFromToUtc: NoRange, or the half-open window [fromUtc, toExclusiveUtc)
rangeFromToUtc(fromStr, toStr, offsetMinutes) ==
  LET fromUtc    == localMidnightToUtcDate(fromStr, offsetMinutes)
      toStartUtc == localMidnightToUtcDate(toStr, offsetMinutes)
  IN  IF fromUtc = NULL \/ toStartUtc = NULL THEN NoRange
      ELSE [ fromUtc |-> fromUtc, toExclusiveUtc |-> toStartUtc + MinutesPerDay ]

\* ------------------------------------------------------------------------
\* Bucketing (server.js:487, 777)
\* ------------------------------------------------------------------------
BucketUnits == { "day", "week", "month" }

\* date_trunc(unit, ts) of PostgreSQL, session time zone UTC; weeks start
\* on Monday (1970-01-01 was a Thursday)
date_trunc(unit, ts) ==
  LET day == ts \div MinutesPerDay
  IN  IF unit = "day" THEN day * MinutesPerDay
      ELSE IF unit = "week" THEN (day - ((day + 3) % 7)) * MinutesPerDay
      ELSE LET c == CivilFromDays(day)
           IN  DaysFromCivil(c[1], c[2], 1) * MinutesPerDay

\* a bucket of the UTC calendar, whatever the offset
BucketUtc(unit, t, offsetMinutes) == date_trunc(unit, t)

\* date_trunc($3, t + offset minutes) - offset minutes
Bucket(unit, t, offsetMinutes) ==
  date_trunc(unit, t + offsetMinutes) - offsetMinutes

\* ------------------------------------------------------------------------
\* Ingest: the in-memory reductions (server.js:128-146, 208-220)
\* ------------------------------------------------------------------------
\* the last request was not a read request
NoRead == [ from |-> << >>, to |-> << >>, accountCode |-> << >> ]

\* no query executed by the last request (or not a read request)
NoQuery == [ from |-> NULL, toExclusive |-> NULL, unit |-> "" ]

\* A posted row is a record
\*   [taskId, taskChangedDate, actualHours, taskAssignedToUPN, taskAssignedTo,
\*    accountCode]
\* with taskId, actualHours and accountCode already passed through
\* normInt / normNum (a number or NULL) and taskChangedDate through
\* toDateOrNull (an instant, or NULL when missing or unparseable).  The
\* remaining payload columns (title, activity, parent_*) are written exactly
\* like taskAssignedTo and are not represented.

\* buildUpsertLatest, the loop over one row: latestByTask is a set of rows
\* with pairwise different taskId
LatestStep(latestByTask, r) ==
  IF r.taskId = NULL THEN latestByTask
  ELSE IF ~ \E p \in latestByTask : p.taskId = r.taskId
  THEN latestByTask \cup {r}
  ELSE LET prev == CHOOSE p \in latestByTask : p.taskId = r.taskId
           prevDate == prev.taskChangedDate
       IN  IF prevDate = NULL
              \/ (r.taskChangedDate # NULL /\ r.taskChangedDate > prevDate)
           THEN (latestByTask \ {prev}) \cup {r}
           ELSE latestByTask

RECURSIVE LatestByTask(_, _)
LatestByTask(rows, acc) ==
  IF rows = << >> THEN acc
  ELSE LatestByTask(Tail(rows), LatestStep(acc, Head(rows)))

\* buildUpsertLatest(rows).values: the rows of the projection statement
buildUpsertLatest(rows) == LatestByTask(rows, {})

\* buildSnapshotInsert, the loop: the first row of every
\* (taskId, taskChangedDate) key is kept, rows without a task id included
RECURSIVE SnapshotUniq(_, _)
SnapshotUniq(rows, uniq) ==
  IF rows = << >> THEN uniq
  ELSE LET r == Head(rows)
           seen == \E u \in uniq : /\ u.taskId = r.taskId
                                   /\ u.taskChangedDate = r.taskChangedDate
       IN  SnapshotUniq(Tail(rows), IF seen THEN uniq ELSE uniq \cup {r})

\* buildSnapshotInsert(runId, snapshotAt, rows).values
buildSnapshotInsert(rows) == SnapshotUniq(rows, {})

\* chunkArray(arr, size)
RECURSIVE chunkArray(_, _)
chunkArray(arr, size) ==
  IF arr = << >> THEN << >>
  ELSE IF Len(arr) <= size THEN << arr >>
  ELSE << SubSeq(arr, 1, size) >> \o chunkArray(SubSeq(arr, size + 1, Len(arr)), size)

\* ------------------------------------------------------------------------
\* Ingest: the two statements (server.js:188-204, 258-269) on the tables of
\* part_001
\* ------------------------------------------------------------------------
\* tfs_task_hours_latest is a set of rows, task_id its primary key;
\* tfs_task_hours_snapshots is a bag of rows; tfs_hours_runs a set of rows.

LatestRow(r, syncedAt) ==
  [ task_id           |-> r.taskId,
    task_changed_date |-> r.taskChangedDate,
    task_assigned_to  |-> r.taskAssignedTo,
    task_assigned_upn |-> r.taskAssignedToUPN,
    task_actual_hours |-> r.actualHours,
    account_code      |-> r.accountCode,
    synced_at         |-> syncedAt ]

\* an upsert without the WHERE of its DO UPDATE: the last writer wins
LatestAcceptsAny(stored, incoming) == TRUE

\* ON CONFLICT (task_id) DO UPDATE ... WHERE latest.task_changed_date <=
\* EXCLUDED.task_changed_date: a comparison with NULL is not true
LatestAccepts(stored, incoming) ==
  /\ stored.task_changed_date # NULL
  /\ incoming.task_changed_date # NULL
  /\ stored.task_changed_date <= incoming.task_changed_date

\* one row of INSERT INTO tfs_task_hours_latest ... ON CONFLICT
UpsertLatestRow(latestT, new) ==
  IF \E l \in latestT : l.task_id = new.task_id
  THEN LET l == CHOOSE l \in latestT : l.task_id = new.task_id
       IN  IF LatestAccepts(l, new) THEN (latestT \ {l}) \cup {new} ELSE latestT
  ELSE latestT \cup {new}

RECURSIVE UpsertLatest(_, _, _)
UpsertLatest(latestT, uniq, syncedAt) ==
  IF uniq = {} THEN latestT
  ELSE LET r == CHOOSE r \in uniq : TRUE
       IN  UpsertLatest(UpsertLatestRow(latestT, LatestRow(r, syncedAt)),
                        uniq \ {r}, syncedAt)

SnapshotRow(runId, snapshotAt, r) ==
  [ run_id            |-> runId,
    snapshot_at       |-> snapshotAt,
    task_id           |-> r.taskId,
    task_assigned_upn |-> r.taskAssignedToUPN,
    task_assigned_to  |-> r.taskAssignedTo,
    task_changed_date |-> r.taskChangedDate,
    task_actual_hours |-> r.actualHours,
    account_code      |-> r.accountCode ]

\* the arbiter of the ledger insert, ON CONFLICT (run_id, task_id,
\* task_changed_date): two rows conflict when they agree on the three
\* columns; a NULL task_changed_date never conflicts (NULLs are distinct in
\* a unique index).  The statement needs a unique index on exactly these
\* columns; part_001's PRIMARY KEY (run_id, task_id) predates it (the poller
\* posts several rows per task and run, part_000:270-292).
SnapshotConflict(old, new) ==
  /\ old.run_id = new.run_id
  /\ old.task_id = new.task_id
  /\ new.task_changed_date # NULL
  /\ old.task_changed_date = new.task_changed_date

\* one row of INSERT INTO tfs_task_hours_snapshots ... ON CONFLICT DO UPDATE
InsertSnapshotRow(snapsT, new) ==
  IF \E o \in BagToSet(snapsT) : SnapshotConflict(o, new)
  THEN LET o == CHOOSE o \in BagToSet(snapsT) : SnapshotConflict(o, new)
       IN  (snapsT (-) SetToBag({o})) (+) SetToBag({new})
  ELSE snapsT (+) SetToBag({new})

RECURSIVE InsertSnapshots(_, _, _, _)
InsertSnapshots(snapsT, uniq, runId, snapshotAt) ==
  IF uniq = {} THEN snapsT
  ELSE LET r == CHOOSE r \in uniq : TRUE
       IN  InsertSnapshots(InsertSnapshotRow(snapsT, SnapshotRow(runId, snapshotAt, r)),
                           uniq \ {r}, runId, snapshotAt)

\* ------------------------------------------------------------------------
\* State
\* ------------------------------------------------------------------------
VARIABLES
  runsT,      \* public.tfs_hours_runs: a set of [run_id, run_at, item_count]
  latestT,    \* public.tfs_task_hours_latest: a set of rows
  snapsT,     \* public.tfs_task_hours_snapshots: a bag of rows
  runSeq,     \* last value of the bigserial sequence of run_id
  now,        \* the server's clock, new Date()
  offsetMin,  \* REPORT_TZ_OFFSET_MINUTES
  syncApiKey, \* SYNC_API_KEY, "" when none is configured
  posted,     \* rows posted so far (bounds the behaviour)
  lastCall,   \* x-api-key header and kind of the rows field of the last
              \* ingest request handled
  lastReq,    \* body of the last ingest request handled
  lastRead,   \* from and to of the last read request handled
  lastQuery,  \* parameters of the query the last read request executed
  resp,       \* response to the last request handled
  txn,        \* the transaction of the ingest call in flight, on its client
  tracker,    \* the work item tracker: for each task the updates made to it
  poller      \* sync-tfs-hours.ps1: last_sync.json and the run in progress

vars == << runsT, latestT, snapsT, runSeq, now, offsetMin, syncApiKey, posted,
           lastCall, lastReq, lastRead, lastQuery, resp, txn, tracker, poller >>

tables == << runsT, latestT, snapsT >>

\* the tracker and the poller, which the requests of other clients leave alone
env == << tracker, poller >>

\* a tracker without updates
NoUpdates == [ tid \in { 1, 2 } |-> << >> ]

\* the poller before its first run: no last_sync.json, no run in progress
PollerIdle ==
  [ pc |-> "idle", run |-> 0, lastSyncUtc |-> NULL, wrote |-> FALSE,
    SinceUtc |-> NULL, MaxSeenUtc |-> NULL,
    taskIds |-> {}, taskRows |-> << >> ]

\* ------------------------------------------------------------------------
\* Ingest: the transaction (server.js:284-319)
\* ------------------------------------------------------------------------
\* The statements of one call are numbered: 1 is the Run insert, 2k and
\* 2k + 1 are the projection and the ledger statement of chunk k.  A
\* statement fails when the database rejects it (below) or when `fault`
\* names it (an error the database raises for a reason outside the batch:
\* a lock timeout, a cancelled statement); the connection stays usable, so
\* that the ROLLBACK of the catch block is executed.

\* the projection statement has no VALUES when no row of the chunk has a
\* task id: a syntax error
LatestStmtRejected(rows) == buildUpsertLatest(rows) = {}

\* a ledger whose task_id column accepts NULL
SnapshotStmtNeverRejected(rows) == FALSE

\* task_id is NOT NULL in tfs_task_hours_snapshots (part_001:32)
SnapshotStmtRejected(rows) == \E r \in buildSnapshotInsert(rows) : r.taskId = NULL

\* the loop over the chunks, from chunk k on; tx is the transaction's view
\* [runsT, latestT, snapsT, failedAt], failedAt the number of the statement
\* that failed, 0 while none has
RECURSIVE RunChunks(_, _, _, _, _, _)
RunChunks(tx, chunks, k, runId, runAt, fault) ==
  IF k > Len(chunks) \/ tx.failedAt > 0 THEN tx
  ELSE LET ch == chunks[k]
           uFails == fault = 2 * k \/ LatestStmtRejected(ch)
           sFails == fault = 2 * k + 1 \/ SnapshotStmtRejected(ch)
           afterU == [ tx EXCEPT !.latestT =
                         UpsertLatest(tx.latestT, buildUpsertLatest(ch), runAt) ]
           afterS == [ afterU EXCEPT !.snapsT =
                         InsertSnapshots(afterU.snapsT, buildSnapshotInsert(ch),
                                         runId, runAt) ]
       IN  IF uFails THEN [ tx EXCEPT !.failedAt = 2 * k ]
           ELSE IF sFails THEN [ afterU EXCEPT !.failedAt = 2 * k + 1 ]
           ELSE RunChunks(afterS, chunks, k + 1, runId, runAt, fault)

\* BEGIN ... the statements, for chunks of `size` rows: the transaction's
\* view of the three tables when the try block is left
TransactionWith(req, syncTs, fault, size) ==
  LET runId  == runSeq + 1
      runRow == [ run_id |-> runId, run_at |-> syncTs, item_count |-> Len(req.rows) ]
      start  == [ runsT   |-> runsT \cup {runRow},
                  latestT |-> latestT,
                  snapsT  |-> snapsT,
                  failedAt |-> 0 ]
  IN  IF fault = 1
      THEN [ runsT |-> runsT, latestT |-> latestT, snapsT |-> snapsT, failedAt |-> 1 ]
      ELSE RunChunks(start, chunkArray(req.rows, size), 1, runId, syncTs, fault)

\* the transaction of the handler: chunkArray(rows, 200), scaled
Transaction(req, syncTs, fault) == TransactionWith(req, syncTs, fault, ChunkSize)

\* a ROLLBACK that keeps what the chunks wrote and drops the Run row only
RollbackRunOnly(before, tx) == << before[1], tx.latestT, tx.snapsT >>

\* ROLLBACK: the tables as they were at BEGIN
Rollback(before, tx) == before

\* COMMIT
Commit(before, tx) == << tx.runsT, tx.latestT, tx.snapsT >>

\* the statements a call executes
Statements(req) == 1 .. (2 * Len(chunkArray(req.rows, ChunkSize)) + 1)

\* app.post('/api/tfs-hours-sync') past its authorization, for a body whose
\* rows field is an array (src/server.js:277-319).  The response
\* carries, for the error message of a 500, the number of the statement
\* that raised it.
HandleIngest(req, fault) ==
  /\ lastReq' = req
  /\ now' = now + 1
  /\ posted' = posted + Len(req.rows)
  /\ lastRead' = NoRead
  /\ lastQuery' = NoQuery
  /\ UNCHANGED << offsetMin, syncApiKey, txn >>
  /\ IF req.rows = << >>
     THEN /\ resp' = [ kind |-> "ingest", status |-> 400, failedAt |-> 0 ]
          /\ UNCHANGED << runsT, latestT, snapsT, runSeq >>
     ELSE LET syncTs == IF req.syncedAtUtc # NULL THEN req.syncedAtUtc ELSE now
              tx     == Transaction(req, syncTs, fault)
              after  == IF tx.failedAt > 0 THEN Rollback(tables, tx)
                        ELSE Commit(tables, tx)
          IN  /\ runsT' = after[1]
              /\ latestT' = after[2]
              /\ snapsT' = after[3]
              /\ runSeq' = IF fault = 1 THEN runSeq ELSE runSeq + 1
              /\ resp' = IF tx.failedAt > 0
                         THEN [ kind |-> "ingest", status |-> 500,
                                failedAt |-> tx.failedAt ]
                         ELSE [ kind |-> "ingest", status |-> 200, failedAt |-> 0,
                                count |-> Len(req.rows), runId |-> runSeq + 1,
                                runAt |-> syncTs ]

\* ------------------------------------------------------------------------
\* Ingest, statement by statement (server.js:283-318): the handler awaits
\* every statement, and read requests are served in between on other
\* connections of the pool
\* ------------------------------------------------------------------------
\* no ingest call is in flight
NoTxn == [ open |-> FALSE ]

\* statements that are committed one by one, as without BEGIN
StatementAutocommit(committed, view) == << view.runsT, view.latestT, view.snapsT >>

\* what the other connections see after a statement of the open transaction:
\* the committed tables (READ COMMITTED, the isolation level the pool's
\* connections have by default)
StatementVisible(committed, view) == committed

\* the chunk of statement number n of the call in flight
TxChunk(t) == chunkArray(t.req.rows, ChunkSize)[t.stmt \div 2]

\* the number of the last statement of the call in flight
TxLast(t) == 2 * Len(chunkArray(t.req.rows, ChunkSize)) + 1

\* the database rejects the next statement of the call in flight
TxRejected(t) ==
  /\ t.stmt > 1
  /\ IF t.stmt % 2 = 0 THEN LatestStmtRejected(TxChunk(t))
     ELSE SnapshotStmtRejected(TxChunk(t))

\* the transaction's view after its next statement
TxStatement(t) ==
  IF t.stmt = 1
  THEN [ t.view EXCEPT !.runsT = @ \cup { [ run_id |-> t.runId, run_at |-> t.syncTs,
                                             item_count |-> Len(t.req.rows) ] } ]
  ELSE IF t.stmt % 2 = 0
  THEN [ t.view EXCEPT !.latestT =
           UpsertLatest(@, buildUpsertLatest(TxChunk(t)), t.syncTs) ]
  ELSE [ t.view EXCEPT !.snapsT =
           InsertSnapshots(@, buildSnapshotInsert(TxChunk(t)), t.runId, t.syncTs) ]

\* pool.connect() and BEGIN of a request that passed authorization and
\* validation; no response yet
BeginTx(req) ==
  /\ ~ txn.open
  /\ req.rows # << >>
  /\ txn' = [ open   |-> TRUE,
              req    |-> req,
              syncTs |-> IF req.syncedAtUtc # NULL THEN req.syncedAtUtc ELSE now,
              runId  |-> runSeq + 1,
              stmt   |-> 1,
              before |-> tables,
              view   |-> [ runsT |-> runsT, latestT |-> latestT, snapsT |-> snapsT,
                           failedAt |-> 0 ] ]
  /\ lastCall' = [ apiKey |-> "", rowsField |-> "array" ]
  /\ lastReq' = req
  /\ now' = now + 1
  /\ posted' = posted + Len(req.rows)
  /\ lastRead' = NoRead
  /\ lastQuery' = NoQuery
  /\ resp' = [ kind |-> "ingest", status |-> 0, failedAt |-> 0 ]
  /\ UNCHANGED << runsT, latestT, snapsT, runSeq, offsetMin, syncApiKey >>

\* await client.query(...) of the next statement: it succeeds, or it is
\* rejected and the catch block rolls back and answers 500
StatementTx ==
  /\ UNCHANGED env
  /\ txn.open
  /\ txn.stmt <= TxLast(txn)
  /\ lastRead' = NoRead
  /\ lastQuery' = NoQuery
  /\ UNCHANGED << now, offsetMin, syncApiKey, posted, lastCall, lastReq >>
  /\ IF TxRejected(txn)
     THEN /\ txn' = NoTxn
          /\ resp' = [ kind |-> "ingest", status |-> 500, failedAt |-> txn.stmt ]
          /\ runSeq' = runSeq + 1
          /\ LET after == Rollback(tables, txn.view)
             IN  runsT' = after[1] /\ latestT' = after[2] /\ snapsT' = after[3]
     ELSE LET view  == TxStatement(txn)
              after == StatementVisible(tables, view)
          IN  /\ txn' = [ txn EXCEPT !.view = view, !.stmt = @ + 1 ]
              /\ resp' = [ kind |-> "ingest", status |-> 0, failedAt |-> 0 ]
              /\ runSeq' = runSeq
              /\ runsT' = after[1] /\ latestT' = after[2] /\ snapsT' = after[3]

\* await client.query('COMMIT') and the response
CommitTx ==
  /\ UNCHANGED env
  /\ txn.open
  /\ txn.stmt > TxLast(txn)
  /\ txn' = NoTxn
  /\ LET after == Commit(tables, txn.view)
     IN  runsT' = after[1] /\ latestT' = after[2] /\ snapsT' = after[3]
  /\ runSeq' = runSeq + 1
  /\ resp' = [ kind |-> "ingest", status |-> 200, failedAt |-> 0,
               count |-> Len(txn.req.rows), runId |-> txn.runId, runAt |-> txn.syncTs ]
  /\ lastRead' = NoRead
  /\ lastQuery' = NoQuery
  /\ UNCHANGED << now, offsetMin, syncApiKey, posted, lastCall, lastReq >>

\* an endpoint that is open whatever is configured
requireApiKeyOpen(key) == TRUE

\* requireApiKey: no secret configured, or the header is present and equal to
\* it; an absent header reads as "" (both are falsy in `!key`)
requireApiKey(key) ==
  \/ syncApiKey = ""
  \/ key # "" /\ key = syncApiKey

\* what the rows field of a body can be: an array, absent (or another falsy
\* value), or a value that is not an array
RowsFields == { "array", "missing", "notArray" }

\* a handler that takes whatever the rows field is
rowsAnyAccepted(rowsField, rows) == TRUE

\* !(!rows || !Array.isArray(rows) || rows.length === 0)
rowsRequired(rowsField, rows) == rowsField = "array" /\ rows # << >>

\* no ingest request handled yet
NoCall == [ apiKey |-> "", rowsField |-> "none" ]

\* app.post('/api/tfs-hours-sync') with its authorization and its validation
\* of the body: key is the x-api-key header, rowsField what the rows field
\* is, req the body when rows is an array
PostSync(key, rowsField, req, fault) ==
  /\ lastCall' = [ apiKey |-> key, rowsField |-> rowsField ]
  /\ IF ~ requireApiKey(key)
     THEN /\ resp' = [ kind |-> "ingest", status |-> 401, failedAt |-> 0 ]
          /\ lastReq' = [ syncedAtUtc |-> req.syncedAtUtc, rows |-> << >> ]
          /\ now' = now + 1
          /\ lastRead' = NoRead
          /\ lastQuery' = NoQuery
          /\ UNCHANGED << runsT, latestT, snapsT, runSeq, offsetMin, syncApiKey, posted, txn >>
     ELSE IF ~ rowsRequired(rowsField, req.rows)
     THEN /\ resp' = [ kind |-> "ingest", status |-> 400, failedAt |-> 0 ]
          /\ lastReq' = [ syncedAtUtc |-> req.syncedAtUtc, rows |-> << >> ]
          /\ now' = now + 1
          /\ lastRead' = NoRead
          /\ lastQuery' = NoQuery
          /\ UNCHANGED << runsT, latestT, snapsT, runSeq, offsetMin, syncApiKey, posted, txn >>
     ELSE HandleIngest(req, fault)

\* ------------------------------------------------------------------------
\* Delta reconstruction: the CTEs shared by summary (server.js:447-506),
\* entries (567-669) and export (736-796)
\* ------------------------------------------------------------------------
\* an effective time that is the snapshot time for every row
EffectiveTArrival(row) == row.snapshot_at

\* COALESCE(task_changed_date, snapshot_at) AS t
EffectiveT(row) ==
  IF row.task_changed_date # NULL THEN row.task_changed_date ELSE row.snapshot_at

\* COALESCE(task_actual_hours, 0) AS h
HoursOf(row) ==
  IF row.task_actual_hours # NULL THEN row.task_actual_hours ELSE 0

\* ORDER BY ..., snapshot_at DESC, run_id DESC: a comes before b
CollapseBefore(a, b) ==
  \/ a.snapshot_at > b.snapshot_at
  \/ a.snapshot_at = b.snapshot_at /\ a.run_id > b.run_id

\* the rows DISTINCT ON (task_id, t) may keep for the group of row g: those
\* no other row of the group comes before (rows that tie in the ORDER BY are
\* returned in an order the database does not specify)
CollapseCandidates(ledger, g) ==
  LET group == { r \in ledger : r.task_id = g.task_id /\ EffectiveT(r) = EffectiveT(g) }
  IN  { r \in group : ~ \E o \in group : CollapseBefore(o, r) }

SnapsRow(r) ==
  [ run_id            |-> r.run_id,
    snapshot_at       |-> r.snapshot_at,
    t                 |-> EffectiveT(r),
    task_id           |-> r.task_id,
    task_assigned_upn |-> r.task_assigned_upn,
    task_assigned_to  |-> r.task_assigned_to,
    account_code      |-> r.account_code,
    h                 |-> HoursOf(r) ]

\* WITH snaps AS (SELECT DISTINCT ON ...): every result the statement can
\* produce, each a set of rows with one row per (task_id, t)
RECURSIVE SnapsOver(_, _)
SnapsOver(ledger, keys) ==
  IF keys = {} THEN { {} }
  ELSE LET k == CHOOSE k \in keys : TRUE
           g == CHOOSE r \in ledger : << r.task_id, EffectiveT(r) >> = k
       IN  { {SnapsRow(c)} \cup rest :
             c \in CollapseCandidates(ledger, g),
             rest \in SnapsOver(ledger, keys \ {k}) }

SnapsCTE(ledgerBag) ==
  LET ledger == BagToSet(ledgerBag)
  IN  SnapsOver(ledger, { << r.task_id, EffectiveT(r) >> : r \in ledger })

\* a query without the prior anchor
PriorNone(snaps, from) == {}

\* prior AS (SELECT DISTINCT ON (task_id) ... WHERE t < $1
\*           ORDER BY task_id, t DESC, snapshot_at DESC)
PriorCTE(snaps, from) ==
  { r \in snaps :
      /\ r.t < from
      /\ ~ \E o \in snaps : /\ o.task_id = r.task_id
                            /\ o.t < from
                            /\ o.t > r.t }

\* a range that includes its upper bound
InRangeClosed(snaps, from, toExclusive) ==
  { r \in snaps : r.t >= from /\ r.t <= toExclusive }

\* inrange AS (SELECT ... WHERE t >= $1 AND t < $2)
InRangeCTE(snaps, from, toExclusive) ==
  { r \in snaps : r.t >= from /\ r.t < toExclusive }

\* LAG(h) OVER (PARTITION BY task_id ORDER BY t, snapshot_at) within s:
\* the h of the row just before r, NULL for the first row of its task
LagH(s, r) ==
  LET before == { o \in s : o.task_id = r.task_id /\ o.t < r.t }
  IN  IF before = {} THEN NULL
      ELSE (CHOOSE o \in before : \A o2 \in before : o2.t <= o.t).h

\* a first observation that is compared with itself
PrevHoursSelf(s, r) == IF LagH(s, r) = NULL THEN r.h ELSE LagH(s, r)

\* COALESCE(prev_h, 0)
PrevHours(s, r) == IF LagH(s, r) = NULL THEN 0 ELSE LagH(s, r)

\* a delta that drops the sign of a correction
DeltaHAbs(s, r) ==
  IF r.h >= PrevHours(s, r) THEN r.h - PrevHours(s, r) ELSE PrevHours(s, r) - r.h

\* a delta that is 0 for the first row of a task
DeltaHFirstZero(s, r) == IF LagH(s, r) = NULL THEN 0 ELSE r.h - LagH(s, r)

\* (h - COALESCE(prev_h, 0)) AS delta_h
DeltaH(s, r) == r.h - PrevHours(s, r)

\* s AS (prior UNION ALL inrange)
SCTE(snaps, from, toExclusive) ==
  PriorCTE(snaps, from) \cup InRangeCTE(snaps, from, toExclusive)

\* d of summary and export: the rows of w WHERE t >= $1 AND t < $2, each
\* with its bucket and delta_h
SummaryD(snaps, from, toExclusive, unit, offset) ==
  LET s == SCTE(snaps, from, toExclusive)
  IN  { [ task_id           |-> r.task_id,
          t                 |-> r.t,
          bucket            |-> Bucket(unit, r.t, offset),
          task_assigned_upn |-> r.task_assigned_upn,
          task_assigned_to  |-> r.task_assigned_to,
          account_code      |-> r.account_code,
          delta_h           |-> DeltaH(s, r) ] :
        r \in { r \in s : r.t >= from /\ r.t < toExclusive } }

RECURSIVE SumDelta(_)
SumDelta(ds) ==
  IF ds = {} THEN 0
  ELSE LET x == CHOOSE x \in ds : TRUE
       IN  x.delta_h + SumDelta(ds \ {x})

GroupOf(x) ==
  << x.bucket, x.task_assigned_upn, x.task_assigned_to, x.account_code >>

\* SELECT bucket, ..., SUM(delta_h) FROM (the rows d) GROUP BY 1,2,3,4
GroupRows(d) ==
  { [ bucket        |-> g[1],
      assignedToUPN |-> g[2],
      assignedTo    |-> g[3],
      accountCode   |-> g[4],
      hours         |-> SumDelta({ x \in d : GroupOf(x) = g }) ] :
    g \in { GroupOf(x) : x \in d } }

\* the final SELECT of summary and export without filters
SummaryRows(snaps, from, toExclusive, unit, offset) ==
  GroupRows(SummaryD(snaps, from, toExclusive, unit, offset))

\* d of entries: the rows of w WHERE is_prior = FALSE
EntriesD(snaps, from, toExclusive) ==
  LET prior   == { [ r EXCEPT !.run_id = NULL, !.task_assigned_upn = "",
                              !.task_assigned_to = "", !.account_code = NULL ] :
                   r \in PriorCTE(snaps, from) }
      inrange == InRangeCTE(snaps, from, toExclusive)
      s       == { [ row |-> r, is_prior |-> TRUE ] : r \in prior }
                 \cup { [ row |-> r, is_prior |-> FALSE ] : r \in inrange }
      rowsOfS == { x.row : x \in s }
  IN  { [ changed_at        |-> x.row.t,
          snapshot_at       |-> x.row.snapshot_at,
          task_id           |-> x.row.task_id,
          task_assigned_upn |-> x.row.task_assigned_upn,
          task_assigned_to  |-> x.row.task_assigned_to,
          account_code      |-> x.row.account_code,
          prev_hours        |-> PrevHours(rowsOfS, x.row),
          actual_hours      |-> x.row.h,
          delta_hours       |-> DeltaH(rowsOfS, x.row) ] :
        x \in { x \in s : x.is_prior = FALSE } }

\* ------------------------------------------------------------------------
\* Query parameters: numbers, filters, ordering
\* ------------------------------------------------------------------------
\* the NaN of Number()
NaN == -888888888

\* Number(raw) of a trimmed string: 0 for the empty string, the value of a
\* string of decimal digits, NaN for the other strings of the model (none of
\* them is a signed, fractional, exponent or radix literal)
Number(raw) ==
  IF raw = << >> THEN 0
  ELSE IF \A i \in DOMAIN raw : IsDigit(raw[i]) THEN NumberOfDigits(raw)
  ELSE NaN

\* accountCodeRaw ? Number(accountCodeRaw) : null
AccountCodeOf(accountCodeRaw) ==
  IF accountCodeRaw = << >> THEN NULL ELSE Number(accountCodeRaw)

\* Number.isFinite
IsFinite(x) == x # NULL /\ x # NaN

Uppers == << "A", "B", "C", "N", "O", "P", "R" >>

Lowers == << "a", "b", "c", "n", "o", "p", "r" >>

\* the letter in lower case (the letters of the model)
Lower(c) ==
  IF \E i \in DOMAIN Uppers : Uppers[i] = c
  THEN Lowers[CHOOSE i \in DOMAIN Uppers : Uppers[i] = c]
  ELSE c

\* text ILIKE pat: % matches any run of characters, _ any one character,
\* letters match without regard to case
RECURSIVE ILike(_, _)
ILike(text, pat) ==
  IF pat = << >> THEN text = << >>
  ELSE IF Head(pat) = "%"
       THEN ILike(text, Tail(pat)) \/ (text # << >> /\ ILike(Tail(text), pat))
  ELSE IF Head(pat) = "_"
       THEN text # << >> /\ ILike(Tail(text), Tail(pat))
  ELSE /\ text # << >>
       /\ Lower(Head(text)) = Lower(Head(pat))
       /\ ILike(Tail(text), Tail(pat))

\* the characters of the assignee addresses of the model; '' for no address
UpnText(upn) ==
  CASE upn = "ann@corp" -> << "a", "n", "n", "@", "c", "o", "r", "p" >>
    [] upn = "bob@corp" -> << "b", "o", "b", "@", "c", "o", "r", "p" >>
    [] OTHER            -> << >>

\* the position of an assignee name in the collation of the database
NameRank(name) ==
  CASE name = "Ann" -> 1
    [] name = "Bob" -> 2
    [] OTHER        -> 3

\* a query that ignores its optional filters
WhereNothing(d, assignedToUPN, accountCodeRaw) == d

\* the optional filters of summary, entries: AND COALESCE(d.task_assigned_upn,
\* '') ILIKE '%..%' when assignedToUPN is not empty, AND d.account_code = n
\* when Number.isFinite(accountCode)
WhereFilters(d, assignedToUPN, accountCodeRaw) ==
  LET accountCode == AccountCodeOf(accountCodeRaw)
  IN  { x \in d :
          /\ assignedToUPN # << >> =>
               ILike(UpnText(x.task_assigned_upn),
                     << "%" >> \o assignedToUPN \o << "%" >>)
          /\ IsFinite(accountCode) =>
               (x.account_code # NULL /\ x.account_code = accountCode) }

\* the optional filters of export (ac = accountCode ? Number(accountCode) :
\* null)
ExportFilters(d, assignedToUPN, accountCode) ==
  LET ac == IF accountCode = << >> THEN NULL ELSE Number(accountCode)
  IN  { x \in d :
          /\ assignedToUPN # << >> =>
               ILike(UpnText(x.task_assigned_upn),
                     << "%" >> \o assignedToUPN \o << "%" >>)
          /\ IsFinite(ac) => (x.account_code # NULL /\ x.account_code = ac) }

\* ORDER BY 1 ASC, 3 ASC: a comes before b
SummaryBefore(a, b) ==
  \/ a.bucket < b.bucket
  \/ a.bucket = b.bucket /\ NameRank(a.assignedTo) < NameRank(b.assignedTo)

\* the orders in which the database may return the rows of summary and
\* export: rows that tie in (bucket, assignedTo) come in any order
RECURSIVE SummaryOrder(_)
SummaryOrder(rows) ==
  IF rows = {} THEN { << >> }
  ELSE UNION { { << r >> \o rest : rest \in SummaryOrder(rows \ {r}) } :
               r \in { r \in rows : ~ \E o \in rows : SummaryBefore(o, r) } }

\* the results the summary statement can return: the rows in their order
SummaryQuery(ledgerBag, from, toExclusive, unit, offset, assignedToUPN, accountCodeRaw) ==
  UNION { SummaryOrder(GroupRows(WhereFilters(
                         SummaryD(snaps, from, toExclusive, unit, offset),
                         assignedToUPN, accountCodeRaw))) :
          snaps \in SnapsCTE(ledgerBag) }

\* the results the export statement can return
ExportQuery(ledgerBag, from, toExclusive, unit, offset, assignedToUPN, accountCode) ==
  UNION { SummaryOrder(GroupRows(ExportFilters(
                         SummaryD(snaps, from, toExclusive, unit, offset),
                         assignedToUPN, accountCode))) :
          snaps \in SnapsCTE(ledgerBag) }

\* Math.min(cap, Math.max(1, Number(limitRaw || default))); NaN when the
\* number is
LimitOf(limitRaw, default, cap) ==
  LET n == IF limitRaw = << >> THEN default ELSE Number(limitRaw)
  IN  IF n = NaN THEN NaN
      ELSE IF n < 1 THEN 1
      ELSE IF n > cap THEN cap
      ELSE n

\* Math.max(0, Number(offsetRaw || 0))
OffsetOf(offsetRaw) ==
  LET n == IF offsetRaw = << >> THEN 0 ELSE Number(offsetRaw)
  IN  IF n = NaN THEN NaN ELSE IF n < 0 THEN 0 ELSE n

\* a page that starts at the first row whatever the offset
PageFirst(list, limit, offset) ==
  SubSeq(list, 1, IF limit > Len(list) THEN Len(list) ELSE limit)

\* LIMIT limit OFFSET offset of the rows in their order
Page(list, limit, offset) ==
  IF offset >= Len(list) THEN << >>
  ELSE SubSeq(list, offset + 1, IF offset + limit > Len(list) THEN Len(list)
                                ELSE offset + limit)

\* ORDER BY d.changed_at ASC, d.task_id ASC: a comes before b
EntriesBefore(a, b) ==
  \/ a.changed_at < b.changed_at
  \/ a.changed_at = b.changed_at /\ a.task_id < b.task_id

RECURSIVE EntriesOrder(_)
EntriesOrder(rows) ==
  IF rows = {} THEN { << >> }
  ELSE UNION { { << r >> \o rest : rest \in EntriesOrder(rows \ {r}) } :
               r \in { r \in rows : ~ \E o \in rows : EntriesBefore(o, r) } }

\* the results the entries statement can return: the page and the
\* total_count of its rows (COUNT(*) OVER() of the filtered rows)
EntriesQuery(ledgerBag, from, toExclusive, assignedToUPN, accountCodeRaw, limit, offset) ==
  UNION { { [ page  |-> Page(list, limit, offset),
              count |-> Len(list) ] :
            list \in EntriesOrder(WhereFilters(EntriesD(snaps, from, toExclusive),
                                               assignedToUPN, accountCodeRaw)) } :
          snaps \in SnapsCTE(ledgerBag) }

\* COALESCE(task_changed_date, synced_at) of a projection row
LatestT(l) == IF l.task_changed_date = NULL THEN l.synced_at ELSE l.task_changed_date

\* ORDER BY COALESCE(task_changed_date, synced_at) DESC NULLS LAST: a comes
\* before b
LatestBefore(a, b) == LatestT(a) > LatestT(b)

RECURSIVE LatestOrder(_)
LatestOrder(rows) ==
  IF rows = {} THEN { << >> }
  ELSE UNION { { << r >> \o rest : rest \in LatestOrder(rows \ {r}) } :
               r \in { r \in rows : ~ \E o \in rows : LatestBefore(o, r) } }

\* the results the latest statement can return; from is NULL when the
\* request gives no range
LatestQuery(projection, from, toExclusive, assignedToUPN, accountCodeRaw, limit, offset) ==
  LET inRange == { l \in projection :
                     from # NULL => (LatestT(l) >= from /\ LatestT(l) < toExclusive) }
  IN  { [ page  |-> Page(list, limit, offset),
          count |-> Len(list) ] :
        list \in LatestOrder(WhereFilters(inRange, assignedToUPN, accountCodeRaw)) }

\* the elements of a sequence
Range(q) == { q[i] : i \in DOMAIN q }

\* ------------------------------------------------------------------------
\* The read endpoints
\* ------------------------------------------------------------------------
\* bucketAllowed.has(bucketRaw) ? bucketRaw : 'day'
BucketParam(bucketRaw) == IF bucketRaw \in BucketUnits THEN bucketRaw ELSE "day"

\* getReportOffsetMinutes()
getReportOffsetMinutes == offsetMin

\* app.get('/api/hours/summary'): rows holds the groups, list their order
HandleSummary(fromStr, toStr, bucketRaw, assignedToUPN, accountCodeRaw) ==
  LET bucket == BucketParam(bucketRaw)
      rng    == rangeFromToUtc(fromStr, toStr, getReportOffsetMinutes)
  IN  /\ UNCHANGED << runsT, latestT, snapsT, runSeq, now, offsetMin, syncApiKey, posted,
                       lastCall, lastReq, txn >>
      /\ lastRead' = [ from |-> fromStr, to |-> toStr, accountCode |-> accountCodeRaw ]
      /\ IF Trim(fromStr) = << >> \/ Trim(toStr) = << >> \/ rng = NoRange
         THEN /\ resp' = [ kind |-> "summary", status |-> 400 ]
              /\ lastQuery' = NoQuery
         ELSE /\ lastQuery' = [ from |-> rng.fromUtc, toExclusive |-> rng.toExclusiveUtc,
                                unit |-> bucket ]
              /\ \E list \in SummaryQuery(snapsT, rng.fromUtc, rng.toExclusiveUtc, bucket,
                                          getReportOffsetMinutes, assignedToUPN,
                                          accountCodeRaw) :
                   resp' = [ kind |-> "summary", status |-> 200, bucket |-> bucket,
                             rows |-> Range(list), list |-> list ]

\* app.get('/api/hours/entries'), the columns joined from the projection
\* aside: rows holds the rows of the page, list their order; a limit or an
\* offset that is NaN makes the statement fail
HandleEntries(fromStr, toStr, assignedToUPN, accountCodeRaw, limitRaw, offsetRaw) ==
  LET rng    == rangeFromToUtc(fromStr, toStr, getReportOffsetMinutes)
      limit  == LimitOf(limitRaw, EntriesDefaultLimit, EntriesMaxLimit)
      offset == OffsetOf(offsetRaw)
  IN  /\ UNCHANGED << runsT, latestT, snapsT, runSeq, now, offsetMin, syncApiKey, posted,
                       lastCall, lastReq, txn >>
      /\ lastRead' = [ from |-> fromStr, to |-> toStr, accountCode |-> accountCodeRaw ]
      /\ IF Trim(fromStr) = << >> \/ Trim(toStr) = << >> \/ rng = NoRange
         THEN /\ resp' = [ kind |-> "entries", status |-> 400 ]
              /\ lastQuery' = NoQuery
         ELSE /\ lastQuery' = [ from |-> rng.fromUtc, toExclusive |-> rng.toExclusiveUtc,
                                unit |-> "" ]
              /\ IF limit = NaN \/ offset = NaN
                 THEN resp' = [ kind |-> "entries", status |-> 500 ]
                 ELSE \E r \in EntriesQuery(snapsT, rng.fromUtc, rng.toExclusiveUtc,
                                            assignedToUPN, accountCodeRaw, limit, offset) :
                        resp' = [ kind |-> "entries", status |-> 200,
                                  total |-> IF r.page = << >> THEN 0 ELSE r.count,
                                  rows |-> Range(r.page), list |-> r.page ]

\* app.get('/api/hours/latest'): the range applies when from and to are
\* both given
HandleLatest(fromStr, toStr, assignedToUPN, accountCodeRaw, limitRaw, offsetRaw) ==
  LET ranged == Trim(fromStr) # << >> /\ Trim(toStr) # << >>
      rng    == rangeFromToUtc(fromStr, toStr, getReportOffsetMinutes)
      limit  == LimitOf(limitRaw, LatestDefaultLimit, LatestMaxLimit)
      offset == OffsetOf(offsetRaw)
  IN  /\ UNCHANGED << runsT, latestT, snapsT, runSeq, now, offsetMin, syncApiKey, posted,
                       lastCall, lastReq, txn >>
      /\ lastRead' = [ from |-> fromStr, to |-> toStr, accountCode |-> accountCodeRaw ]
      /\ IF ranged /\ rng = NoRange
         THEN /\ resp' = [ kind |-> "latest", status |-> 400 ]
              /\ lastQuery' = NoQuery
         ELSE /\ lastQuery' = IF ranged
                              THEN [ from |-> rng.fromUtc,
                                     toExclusive |-> rng.toExclusiveUtc, unit |-> "" ]
                              ELSE NoQuery
              /\ IF limit = NaN \/ offset = NaN
                 THEN resp' = [ kind |-> "latest", status |-> 500 ]
                 ELSE \E r \in LatestQuery(latestT,
                                           IF ranged THEN rng.fromUtc ELSE NULL,
                                           IF ranged THEN rng.toExclusiveUtc ELSE NULL,
                                           assignedToUPN, accountCodeRaw, limit, offset) :
                        resp' = [ kind |-> "latest", status |-> 200,
                                  total |-> IF r.page = << >> THEN 0 ELSE r.count,
                                  rows |-> Range(r.page), list |-> r.page ]

\* row.bucket.toISOString().slice(0, 10): the UTC date <<y, m, d>> of the
\* bucket instant
IsoDate(ts) == CivilFromDays(ts \div MinutesPerDay)

\* a CSV line of a row of the export statement
CsvLine(row) ==
  [ bucket        |-> IsoDate(row.bucket),
    assignedTo    |-> row.assignedTo,
    assignedToUPN |-> row.assignedToUPN,
    accountCode   |-> row.accountCode,
    hours         |-> row.hours ]

\* app.get('/api/hours/export.csv'): one line per row of the statement;
\* lines holds the lines, list their order
HandleExport(fromStr, toStr, bucketRaw, assignedToUPN, accountCode) ==
  LET unit == BucketParam(bucketRaw)
      rng  == rangeFromToUtc(fromStr, toStr, getReportOffsetMinutes)
  IN  /\ UNCHANGED << runsT, latestT, snapsT, runSeq, now, offsetMin, syncApiKey, posted,
                       lastCall, lastReq, txn >>
      /\ lastRead' = [ from |-> fromStr, to |-> toStr, accountCode |-> accountCode ]
      /\ IF Trim(fromStr) = << >> \/ Trim(toStr) = << >> \/ rng = NoRange
         THEN /\ resp' = [ kind |-> "export", status |-> 400 ]
              /\ lastQuery' = NoQuery
         ELSE /\ lastQuery' = [ from |-> rng.fromUtc, toExclusive |-> rng.toExclusiveUtc,
                                unit |-> unit ]
              /\ \E list \in ExportQuery(snapsT, rng.fromUtc, rng.toExclusiveUtc, unit,
                                         getReportOffsetMinutes, assignedToUPN,
                                         accountCode) :
                   resp' = [ kind |-> "export", status |-> 200,
                             lines |-> { CsvLine(row) : row \in Range(list) },
                             list |-> [ i \in DOMAIN list |-> CsvLine(list[i]) ] ]

\* ------------------------------------------------------------------------
\* The requests of the model
\* the instants of the report's boundary cases at offset -480
T0759 == Instant(2024, 1, 2, 7, 59)

T0800 == Instant(2024, 1, 2, 8, 0)

ChangedDates == { T0759, T0800 }

\* the clock when the server starts: 2024-01-02T07:58Z
Now0 == Instant(2024, 1, 2, 7, 58)

\* a run time a client supplies: 2024-01-01T09:00Z
ClientRunAt == Instant(2024, 1, 1, 9, 0)

\* a change before every window of the reports: 2023-12-31T12:00Z
TPrior == Instant(2023, 12, 31, 12, 0)

TaskIds == { 1, 2 }

NameOf(upn) == IF upn = "ann@corp" THEN "Ann" ELSE "Bob"

PostedRow(tid, tcd, h, upn) ==
  [ taskId |-> tid, taskChangedDate |-> tcd, actualHours |-> h,
    taskAssignedToUPN |-> upn, taskAssignedTo |-> NameOf(upn), accountCode |-> NULL ]

\* the rows a client may post: the changes of task 1 with hours 10 and 15, a
\* row of task 1 without changed date, a row of task 2 and a row without a
\* task id
PostedRows ==
  { PostedRow(1, tcd, h, "ann@corp") : tcd \in ChangedDates, h \in { 10, 15 } }
  \cup { PostedRow(1, NULL, 10, "ann@corp") }
  \cup { PostedRow(2, T0800, 10, "bob@corp") }
  \cup { PostedRow(NULL, NULL, 10, "ann@corp") }

\* the rows of the report specification: the history of task 1 with hours
\* 8, 10 and 15, a row of task 1 without changed date and a row of task 2
ReportRows ==
  { PostedRow(1, tcd, h, "ann@corp") :
    tcd \in ChangedDates \cup {TPrior}, h \in { 8, 10, 15 } }
  \cup { PostedRow(1, NULL, 8, "ann@corp") }
  \cup { PostedRow(2, T0800, 10, "bob@corp") }

RECURSIVE SeqsUpTo(_, _)
SeqsUpTo(S, n) ==
  IF n = 0 THEN { << >> }
  ELSE LET shorter == SeqsUpTo(S, n - 1)
       IN  shorter \cup { Append(q, e) : q \in { q \in shorter : Len(q) = n - 1 }, e \in S }

Min(a, b) == IF a < b THEN a ELSE b

\* the bodies a client may post now
Requests ==
  { [ syncedAtUtc |-> ts, rows |-> rows ] :
    ts \in { NULL, ClientRunAt },
    rows \in SeqsUpTo(PostedRows, Min(MaxBatch, MaxRows - posted)) }

\* the bodies of the report specification: one row, with the run time the
\* poller supplies, or a row without changed date and no run time
ReportRequests ==
  { [ syncedAtUtc |-> ClientRunAt, rows |-> << r >> ] :
    r \in { r \in ReportRows : r.taskChangedDate # NULL } }
  \cup { [ syncedAtUtc |-> NULL, rows |-> << r >> ] :
          r \in { r \in ReportRows : r.taskChangedDate = NULL } }

\* "YYYY-MM-DD" of the numbers y, m, d
Pad2(n) == << Digits[((n \div 10) % 10) + 1], Digits[(n % 10) + 1] >>

Ymd(y, m, d) ==
  Pad2(y \div 100) \o Pad2(y % 100) \o << "-" >> \o Pad2(m) \o << "-" >> \o Pad2(d)

\* the windows the reports are asked for: <<from, to>>
ReportWindows ==
  { << Ymd(2024, 1, 1), Ymd(2024, 1, 1) >>,
    << Ymd(2024, 1, 2), Ymd(2024, 1, 2) >>,
    << Ymd(2024, 1, 1), Ymd(2024, 1, 2) >> }

\* the offsets the report time zone is configured with: UTC-8, UTC, UTC+5:30
RangeOffsets == { -480, 0, 330 }

\* the changes of the range specification: the last minute of a local day
\* and the first minute of the next one, for each offset
RangeInstants ==
  { Instant(2024, 1, 2, 0, 0) - o - 1 : o \in RangeOffsets }
  \cup { Instant(2024, 1, 2, 0, 0) - o : o \in RangeOffsets }

RangeRequests ==
  { [ syncedAtUtc |-> ClientRunAt, rows |-> << PostedRow(1, t, h, "ann@corp") >> ] :
    t \in RangeInstants, h \in { 10 } }

Chars(a, b, c, d, e, f, g, h, i, j) == << a, b, c, d, e, f, g, h, i, j >>

\* the from and to a client may send: calendar dates, strings of the shape
\* of a date that name no calendar day, and strings of another shape
RangeDates ==
  { Ymd(2024, 1, 1), Ymd(2024, 1, 2), Ymd(2023, 12, 31), Ymd(2024, 2, 29),
    Ymd(50, 1, 1),
    << " " >> \o Ymd(2024, 1, 1) \o << " " >>,
    Ymd(2024, 13, 1), Ymd(2024, 0, 10), Ymd(2024, 2, 30), Ymd(2023, 2, 29),
    Ymd(2024, 1, 0), Ymd(2024, 4, 31),
    Chars("2", "0", "2", "4", "/", "0", "1", "/", "0", "1"),
    Chars("2", "0", "2", "4", "-", "1", "-", "0", "1", "x"),
    << "2", "0", "2", "4", "0", "1", "0", "1" >>,
    << "2", "0", "2", "4", "-", "1", "-", "1" >>,
    << " " >>,
    << >> }

\* the pairs <<from, to>> of the range specification: one day, or a window
\* one of whose ends is 2024-01-01
RangeWindows ==
  { << f, t >> \in RangeDates \X RangeDates :
      f = t \/ f = Ymd(2024, 1, 1) \/ t = Ymd(2024, 1, 1) }

\* ------------------------------------------------------------------------
\* Actions
\* ------------------------------------------------------------------------
\* the secrets the server is configured with and the headers clients send
ApiSecrets == { "", "s3cret" }

ApiKeys == { "", "s3cret", "wrong" }

\* the bodies of the authorization specification: up to two rows of two tasks
AuthRequests ==
  { [ syncedAtUtc |-> ClientRunAt, rows |-> rows ] :
    rows \in SeqsUpTo({ PostedRow(1, T0759, 10, "ann@corp"),
                        PostedRow(2, T0800, 10, "bob@corp") }, 2) }

\* a client posts a batch; the database may fail any statement of the call
Ingest ==
  /\ UNCHANGED env
  /\ now < Now0 + MaxRuns
  /\ \E req \in Requests : \E fault \in {0} \cup Statements(req) :
       PostSync("", "array", req, fault)

\* the poller posts one observed change
IngestChange ==
  /\ UNCHANGED env
  /\ now < Now0 + MaxReportRuns
  /\ \E req \in ReportRequests : PostSync("", "array", req, 0)

\* the rows of the query specification: two changes of task 1 of Ann on
\* account 100, and changes of task 2 of Bob and of Ann on account 200
QueryRow(tid, tcd, h, upn, name, ac) ==
  [ taskId |-> tid, taskChangedDate |-> tcd, actualHours |-> h,
    taskAssignedToUPN |-> upn, taskAssignedTo |-> name, accountCode |-> ac ]

QueryRows ==
  { QueryRow(1, T0759, 10, "ann@corp", "Ann", 100),
    QueryRow(1, T0800, 15, "ann@corp", "Ann", 100),
    QueryRow(2, T0800, 10, "bob@corp", "Bob", 200),
    QueryRow(2, T0759, 10, "ann@corp", "Ann", 200) }

QueryRequests ==
  { [ syncedAtUtc |-> ClientRunAt, rows |-> << r >> ] : r \in QueryRows }

QueryWindows ==
  { << Ymd(2024, 1, 1), Ymd(2024, 1, 2) >>,
    << Ymd(2024, 1, 2), Ymd(2024, 1, 2) >> }

\* the assignedToUPN filters: none, "ANN", "b_b"
UpnFilters == { << >>, << "A", "N", "N" >>, << "b", "_", "b" >> }

\* the accountCode filters: none, "100", "200", "abc"
AccountFilters == { << >>, << "1", "0", "0" >>, << "2", "0", "0" >>, << "a", "b", "c" >> }

\* the filter pairs <<assignedToUPN, accountCode>> of the read requests
QueryFilters ==
  { << << >>, << >> >>,
    << << "A", "N", "N" >>, << >> >>,
    << << >>, << "1", "0", "0" >> >>,
    << << >>, << "a", "b", "c" >> >>,
    << << "b", "_", "b" >>, << "2", "0", "0" >> >> }

\* the pairs <<limit, offset>> of the read requests: absent, "1" and "1",
\* "9", "x"
Pagings ==
  { << << >>, << >> >>,
    << << "1" >>, << "1" >> >>,
    << << "9" >>, << >> >>,
    << << "x" >>, << >> >> }

\* the last request was a read request
ReadHandled == resp.kind \in { "latest", "summary", "entries", "export" }

\* A read request leaves the store as it is: the reads that follow a read
\* reach the states the reads before it reach, and the model takes one read
\* between two ingest calls.
Summary ==
  /\ UNCHANGED env
  /\ ~ ReadHandled
  /\ \E w \in ReportWindows, unit \in BucketUnits :
       HandleSummary(w[1], w[2], unit, << >>, << >>)

Entries ==
  /\ UNCHANGED env
  /\ ~ ReadHandled
  /\ \E w \in ReportWindows :
       HandleEntries(w[1], w[2], << >>, << >>, << "9" >>, << >>)

\* the poller posts one change; the report time zone is any of RangeOffsets
IngestObservation ==
  /\ UNCHANGED env
  /\ now < Now0 + MaxRangeRuns
  /\ \E req \in RangeRequests : PostSync("", "array", req, 0)

SummaryRange ==
  /\ UNCHANGED env
  /\ ~ ReadHandled
  /\ \E w \in RangeWindows, unit \in BucketUnits :
       HandleSummary(w[1], w[2], unit, << >>, << >>)

EntriesRange ==
  /\ UNCHANGED env
  /\ ~ ReadHandled
  /\ \E w \in RangeWindows :
       HandleEntries(w[1], w[2], << >>, << >>, << "9" >>, << >>)

ExportRange ==
  /\ UNCHANGED env
  /\ ~ ReadHandled
  /\ \E w \in RangeWindows, unit \in BucketUnits :
       HandleExport(w[1], w[2], unit, << >>, << >>)

\* the poller posts one change of a task with an account code
IngestCoded ==
  /\ UNCHANGED env
  /\ now < Now0 + MaxQueryRuns
  /\ \E req \in QueryRequests : PostSync("", "array", req, 0)

LatestFiltered ==
  /\ UNCHANGED env
  /\ ~ ReadHandled
  /\ \E w \in QueryWindows \cup { << << >>, << >> >> }, f \in QueryFilters, pg \in Pagings :
       HandleLatest(w[1], w[2], f[1], f[2], pg[1], pg[2])

SummaryFiltered ==
  /\ UNCHANGED env
  /\ ~ ReadHandled
  /\ \E w \in QueryWindows, f \in QueryFilters :
       HandleSummary(w[1], w[2], "day", f[1], f[2])

EntriesFiltered ==
  /\ UNCHANGED env
  /\ ~ ReadHandled
  /\ \E w \in QueryWindows, f \in QueryFilters, pg \in Pagings :
       HandleEntries(w[1], w[2], f[1], f[2], pg[1], pg[2])

ExportFiltered ==
  /\ UNCHANGED env
  /\ ~ ReadHandled
  /\ \E w \in QueryWindows, f \in QueryFilters :
       HandleExport(w[1], w[2], "day", f[1], f[2])

\* the bodies of the interleaving specification: up to three rows of two
\* changes of task 1 and a row without task id
TxRequests ==
  { [ syncedAtUtc |-> ClientRunAt, rows |-> rows ] :
    rows \in SeqsUpTo({ PostedRow(1, T0759, 10, "ann@corp"),
                        PostedRow(1, T0800, 15, "ann@corp"),
                        PostedRow(NULL, NULL, 10, "ann@corp") }, MaxBatch) \ { << >> } }

\* an ingest call starts
IngestBegin ==
  /\ UNCHANGED env
  /\ now < Now0 + MaxTxRuns
  /\ \E req \in TxRequests : BeginTx(req)

\* a summary and a latest request, served while no or one ingest call is in
\* flight
SummaryDuring ==
  /\ UNCHANGED env
  /\ ~ ReadHandled
  /\ HandleSummary(Ymd(2024, 1, 1), Ymd(2024, 1, 2), "day", << >>, << >>)

LatestDuring ==
  /\ UNCHANGED env
  /\ ~ ReadHandled
  /\ HandleLatest(<< >>, << >>, << >>, << >>, << "9" >>, << >>)

\* a client posts a body with any header to a server with or without a
\* configured secret
IngestKeyed ==
  /\ UNCHANGED env
  /\ now < Now0 + MaxAuthRuns
  /\ \E key \in ApiKeys, rowsField \in RowsFields, req \in AuthRequests :
       PostSync(key, rowsField, req, 0)

Init ==
  /\ runsT = {}
  /\ latestT = {}
  /\ snapsT = EmptyBag
  /\ runSeq = 0
  /\ now = Now0
  /\ offsetMin = -480
  /\ posted = 0
  /\ lastReq = [ syncedAtUtc |-> NULL, rows |-> << >> ]
  /\ syncApiKey = ""
  /\ lastCall = NoCall
  /\ txn = NoTxn
  /\ tracker = NoUpdates
  /\ poller = PollerIdle
  /\ lastRead = NoRead
  /\ lastQuery = NoQuery
  /\ resp = [ kind |-> "none", status |-> 0 ]

\* the ingest transaction
Next == Ingest

Spec == Init /\ [][Next]_vars

\* the reports over the ledger
NextReport == IngestChange \/ Summary \/ Entries

SpecReport == Init /\ [][NextReport]_vars

\* the range resolution and the bucketing, for each report time zone
InitRange ==
  /\ runsT = {}
  /\ latestT = {}
  /\ snapsT = EmptyBag
  /\ runSeq = 0
  /\ now = Now0
  /\ offsetMin \in RangeOffsets
  /\ posted = 0
  /\ lastReq = [ syncedAtUtc |-> NULL, rows |-> << >> ]
  /\ syncApiKey = ""
  /\ lastCall = NoCall
  /\ txn = NoTxn
  /\ tracker = NoUpdates
  /\ poller = PollerIdle
  /\ lastRead = NoRead
  /\ lastQuery = NoQuery
  /\ resp = [ kind |-> "none", status |-> 0 ]

NextRange == IngestObservation \/ SummaryRange \/ EntriesRange \/ ExportRange

SpecRange == InitRange /\ [][NextRange]_vars

\* the authorization and the validation of the ingest endpoint
InitAuth ==
  /\ runsT = {}
  /\ latestT = {}
  /\ snapsT = EmptyBag
  /\ runSeq = 0
  /\ now = Now0
  /\ offsetMin = -480
  /\ syncApiKey \in ApiSecrets
  /\ posted = 0
  /\ lastCall = NoCall
  /\ txn = NoTxn
  /\ tracker = NoUpdates
  /\ poller = PollerIdle
  /\ lastReq = [ syncedAtUtc |-> NULL, rows |-> << >> ]
  /\ lastRead = NoRead
  /\ lastQuery = NoQuery
  /\ resp = [ kind |-> "none", status |-> 0 ]

NextAuth == IngestKeyed

\* an ingest call, statement by statement, interleaved with reads
NextTx == IngestBegin \/ StatementTx \/ CommitTx \/ SummaryDuring \/ LatestDuring

SpecTx == Init /\ [][NextTx]_vars

\* the read endpoints with their filters and pages over a store of rows with
\* account codes
NextQuery ==
  IngestCoded \/ LatestFiltered \/ SummaryFiltered \/ EntriesFiltered \/ ExportFiltered

SpecQuery == Init /\ [][NextQuery]_vars

SpecAuth == InitAuth /\ [][NextAuth]_vars

\* ------------------------------------------------------------------------
\* Properties of the ingest transaction (Spec)
\* ------------------------------------------------------------------------
\* the step is an ingest call that committed
IngestCommitted == now' # now /\ resp'.status = 200

\* the ledger rows stored for the observation (task id, changed date)
LedgerRowsOf(ledgerBag, tid, tcd) ==
  BagCardinality([ r \in { r \in BagToSet(ledgerBag) :
                             r.task_id = tid /\ r.task_changed_date = tcd } |->
                   ledgerBag[r] ])

\* C1: the snapshot ledger holds at most one row per (task id, effective
\* changed-time): a committed ingest that carries an observation whose
\* (taskId, taskChangedDate) is already stored leaves one ledger row for it.
C1_LedgerOneRowPerObservation ==
  [][ IngestCommitted =>
      \A i \in 1..Len(lastReq'.rows) :
        LET r == lastReq'.rows[i]
        IN  ( /\ r.taskChangedDate # NULL
              /\ LedgerRowsOf(snapsT, r.taskId, r.taskChangedDate) = 1 )
            => LedgerRowsOf(snapsT', r.taskId, r.taskChangedDate) = 1 ]_vars

\* what a projection row holds, its synced_at aside
LatestContent(l) ==
  << l.task_id, l.task_changed_date, l.task_assigned_upn, l.task_assigned_to,
     l.task_actual_hours, l.account_code >>

\* what a ledger row holds, its run_id and snapshot_at aside
SnapshotContent(r) ==
  << r.task_id, r.task_changed_date, r.task_assigned_upn, r.task_assigned_to,
     r.task_actual_hours, r.account_code >>

\* the rows of the ledger per content
LedgerCount(ledgerBag, c) ==
  BagCardinality([ r \in { r \in BagToSet(ledgerBag) : SnapshotContent(r) = c } |->
                   ledgerBag[r] ])

SameStoredContent ==
  /\ { LatestContent(l) : l \in latestT' } = { LatestContent(l) : l \in latestT }
  /\ { SnapshotContent(r) : r \in BagToSet(snapsT') }
       = { SnapshotContent(r) : r \in BagToSet(snapsT) }
  /\ \A r \in BagToSet(snapsT) :
       LedgerCount(snapsT', SnapshotContent(r)) = LedgerCount(snapsT, SnapshotContent(r))

\* C2: posting the batch that was committed last once more leaves the
\* projection and the ledger with the same content (run ids and run times
\* aside) and adds exactly one Run row.
C2_IdempotentIngest ==
  [][ ( /\ IngestCommitted
        /\ resp.kind = "ingest" /\ resp.status = 200
        /\ lastReq' = lastReq )
      => ( /\ SameStoredContent
           /\ Cardinality(runsT') = Cardinality(runsT) + 1 ) ]_vars

\* the database rejects a statement of the batch
BatchRejected(req) ==
  \E k \in 1..Len(chunkArray(req.rows, ChunkSize)) :
    \/ LatestStmtRejected(chunkArray(req.rows, ChunkSize)[k])
    \/ SnapshotStmtRejected(chunkArray(req.rows, ChunkSize)[k])

RowsFor(req, tid) == { req.rows[i] : i \in { i \in 1..Len(req.rows) : req.rows[i].taskId = tid } }

\* C5: a committed ingest overwrites every field of an existing projection
\* row when the incoming taskChangedDate is greater than or equal to the
\* stored one and leaves the row untouched when it is smaller; a stored
\* task_changed_date never decreases.
C5_ProjectionConflictPolicy ==
  [][ IngestCommitted =>
      \A l \in latestT :
        /\ \E m \in latestT' :
             /\ m.task_id = l.task_id
             /\ (l.task_changed_date # NULL =>
                   m.task_changed_date # NULL /\ m.task_changed_date >= l.task_changed_date)
        /\ (l.task_changed_date # NULL /\ RowsFor(lastReq', l.task_id) # {}) =>
             /\ (\A r \in RowsFor(lastReq', l.task_id) :
                   r.taskChangedDate # NULL /\ r.taskChangedDate < l.task_changed_date)
                  => l \in latestT'
             /\ \A r \in RowsFor(lastReq', l.task_id) :
                  ( /\ RowsFor(lastReq', l.task_id) = {r}
                    /\ Len(SelectSeq(lastReq'.rows, LAMBDA x : x.taskId = l.task_id)) = 1
                    /\ r.taskChangedDate # NULL
                    /\ r.taskChangedDate >= l.task_changed_date )
                  => LatestRow(r, resp'.runAt) \in latestT'
    ]_vars

\* a second run carried an older change of task 1 (07:59 after 08:00) with
\* other hours, and the projection kept the newer row of the first run
C5_Witness ==
  /\ resp.kind = "ingest" /\ resp.status = 200
  /\ Cardinality(runsT) = 2
  /\ \E l \in latestT :
       /\ l.task_changed_date = T0800
       /\ \E r \in RowsFor(lastReq, l.task_id) :
            /\ r.taskChangedDate = T0759
            /\ r.actualHours # l.task_actual_hours
       /\ \E o \in BagToSet(snapsT) :
            /\ o.run_id = 1 /\ o.task_id = l.task_id
            /\ o.task_changed_date = T0800
            /\ o.task_actual_hours = l.task_actual_hours

\* C15: the projection and the ledger after a committed ingest are what the
\* same batch leaves when it is written in chunks of any other size, the
\* whole batch as one chunk included.
C15_ChunkingHasNoEffect ==
  [][ IngestCommitted =>
      \A size \in 1 .. MaxBatch :
        LET tx == TransactionWith(lastReq', resp'.runAt, 0, size)
        IN  /\ tx.failedAt = 0
            /\ tx.latestT = latestT'
            /\ tx.snapsT = snapsT' ]_vars

\* the ledger rows of a task that carry a changed date: the dated rows ever
\* committed for it
DatedRowsOf(tid) ==
  { r \in BagToSet(snapsT) : r.task_id = tid /\ r.task_changed_date # NULL }

\* C20: after any sequence of committed ingests, the projection row of a
\* task for which a dated row was ever ingested carries the greatest
\* taskChangedDate ever ingested for the task and the fields of an ingested
\* row with that date, also when other ingested rows of the task had no
\* changed date.
C20_ProjectionHoldsLatestChange ==
  \A tid \in TaskIds :
    DatedRowsOf(tid) # {} =>
      \E l \in latestT :
        /\ l.task_id = tid
        /\ \A r \in DatedRowsOf(tid) : r.task_changed_date <= l.task_changed_date
        /\ \E r \in DatedRowsOf(tid) :
             /\ r.task_changed_date = l.task_changed_date
             /\ r.task_actual_hours = l.task_actual_hours
             /\ r.task_assigned_upn = l.task_assigned_upn
             /\ r.task_assigned_to = l.task_assigned_to
             /\ r.account_code = l.account_code

\* ------------------------------------------------------------------------
\* Properties of the reports (SpecReport)
\* ------------------------------------------------------------------------
\* the results the summary query can return over a ledger for the window w
\* and the bucket unit
SummaryResults(ledgerBag, w, unit) ==
  LET rng == rangeFromToUtc(w[1], w[2], offsetMin)
  IN  { SummaryRows(snaps, rng.fromUtc, rng.toExclusiveUtc, unit, offsetMin) :
        snaps \in SnapsCTE(ledgerBag) }

\* C3: the summary query returns the same rows, for every window and bucket
\* unit, after the batch that was committed last has been committed a second
\* time.
C3_SummaryAfterReingest ==
  [][ ( /\ IngestCommitted
        /\ resp.kind = "ingest" /\ resp.status = 200
        /\ lastReq' = lastReq )
      => \A w \in ReportWindows, unit \in BucketUnits :
           SummaryResults(snapsT', w, unit) = SummaryResults(snapsT, w, unit) ]_vars

\* the collapsed observations of a task, and those before / within a window
TaskObs(snaps, tid) == { r \in snaps : r.task_id = tid }

ObsBefore(snaps, tid, t) == { r \in TaskObs(snaps, tid) : r.t < t }

ObsWithin(snaps, tid, from, toExclusive) ==
  { r \in TaskObs(snaps, tid) : r.t >= from /\ r.t < toExclusive }

\* the observation with the greatest time of a non-empty set
LastObs(obs) == CHOOSE r \in obs : \A o \in obs : o.t <= r.t

\* the sum of the second components of a set of pairs
RECURSIVE SumPairs(_)
SumPairs(ps) ==
  IF ps = {} THEN 0
  ELSE LET p == CHOOSE p \in ps : TRUE
       IN  p[2] + SumPairs(ps \ {p})

SumOf(rows, Val(_)) == SumPairs({ << x, Val(x) >> : x \in rows })

DeltaOfSummary(x) == x.delta_h

DeltaOfEntry(x) == x.delta_hours

\* C6: for the window of the last read request and every task with a prior
\* anchor h0 and in-range observations h1..hn, the deltas of the summary
\* query and of the entries query over the in-range observations sum to
\* hn - h0.
C6_TelescopingSum ==
  lastQuery # NoQuery =>
    \A snaps \in SnapsCTE(snapsT) : \A tid \in TaskIds :
      LET from   == lastQuery.from
          to     == lastQuery.toExclusive
          before == ObsBefore(snaps, tid, from)
          within == ObsWithin(snaps, tid, from, to)
          hn     == LastObs(within).h
          h0     == LastObs(before).h
      IN  (before # {} /\ within # {}) =>
            /\ SumOf({ x \in SummaryD(snaps, from, to, "day", offsetMin) :
                       x.task_id = tid }, DeltaOfSummary) = hn - h0
            /\ SumOf({ x \in EntriesD(snaps, from, to) : x.task_id = tid },
                     DeltaOfEntry) = hn - h0

\* the entries of 2024-01-01..02 list two changes of task 1 after an anchor
\* with other hours, the second change lowering the hours
C6_Witness ==
  /\ resp.kind = "entries" /\ resp.status = 200
  /\ \E a \in resp.rows, b \in resp.rows :
       /\ a.task_id = 1 /\ b.task_id = 1
       /\ a.changed_at < b.changed_at
       /\ a.prev_hours > 0
       /\ a.prev_hours # a.actual_hours
       /\ b.actual_hours < a.actual_hours
       /\ \E r \in BagToSet(snapsT) :
            /\ r.task_id = 1
            /\ EffectiveT(r) < lastQuery.from
            /\ r.task_actual_hours = a.prev_hours

\* the hours of the observation of the task just before t, 0 when there is
\* none
PrecedingHours(snaps, tid, t) ==
  IF ObsBefore(snaps, tid, t) = {} THEN 0
  ELSE LastObs(ObsBefore(snaps, tid, t)).h

\* the groups' sums of the signed differences of the in-range observations
SignedSummary(snaps, from, toExclusive, unit, offset) ==
  LET inrange == { r \in snaps : r.t >= from /\ r.t < toExclusive }
      GroupKey(r) == << Bucket(unit, r.t, offset), r.task_assigned_upn,
                        r.task_assigned_to, r.account_code >>
      Signed(r) == r.h - PrecedingHours(snaps, r.task_id, r.t)
  IN  { [ bucket        |-> g[1],
          assignedToUPN |-> g[2],
          assignedTo    |-> g[3],
          accountCode   |-> g[4],
          hours         |-> SumOf({ r \in inrange : GroupKey(r) = g }, Signed) ] :
        g \in { GroupKey(r) : r \in inrange } }

\* C7: the delta of an entry is its hours minus the hours of the task's
\* preceding observation, negative when the hours were lowered, and the
\* hours of a summary group are the sum of these signed differences, which
\* may be negative.
C7_NegativeDeltasPreserved ==
  /\ (resp.kind = "entries" /\ resp.status = 200) =>
       \E snaps \in SnapsCTE(snapsT) :
         \A e \in resp.rows :
           /\ e.delta_hours = e.actual_hours
                                - PrecedingHours(snaps, e.task_id, e.changed_at)
           /\ (ObsBefore(snaps, e.task_id, e.changed_at) # {}
               /\ e.actual_hours < PrecedingHours(snaps, e.task_id, e.changed_at))
              => e.delta_hours < 0
  /\ (resp.kind = "summary" /\ resp.status = 200) =>
       \E snaps \in SnapsCTE(snapsT) :
         resp.rows = SignedSummary(snaps, lastQuery.from, lastQuery.toExclusive,
                                   lastQuery.unit, offsetMin)

\* the entries of a window list the changes 10 -> 15 -> 8 of task 1 with
\* the deltas +5 and -7
C7_Witness ==
  /\ resp.kind = "entries" /\ resp.status = 200
  /\ \E a \in resp.rows, b \in resp.rows :
       /\ a.task_id = 1 /\ b.task_id = 1
       /\ a.prev_hours = 10 /\ a.actual_hours = 15 /\ a.delta_hours = 5
       /\ b.prev_hours = 15 /\ b.actual_hours = 8 /\ b.delta_hours = -7

\* the in-range observations of the last summary window that no observation
\* of their task precedes, each paired with its row of d
FirstObservations(snaps) ==
  { << r, x >> \in
      snaps \X SummaryD(snaps, lastQuery.from, lastQuery.toExclusive,
                        lastQuery.unit, offsetMin) :
      /\ x.task_id = r.task_id /\ x.t = r.t
      /\ ObsBefore(snaps, r.task_id, r.t) = {} }

\* C13 (as the code has it): in the summary path, an in-range observation
\* that has no preceding observation for its task contributes its full hours
\* value (hours - 0) to its bucket.
C13_FirstObservationFullValue ==
  (resp.kind = "summary" /\ resp.status = 200) =>
    \A snaps \in SnapsCTE(snapsT) :
      /\ \A p \in FirstObservations(snaps) : p[2].delta_h = p[1].h
      /\ \A r \in InRangeCTE(snaps, lastQuery.from, lastQuery.toExclusive) :
           \E x \in SummaryD(snaps, lastQuery.from, lastQuery.toExclusive,
                              lastQuery.unit, offsetMin) :
             x.task_id = r.task_id /\ x.t = r.t

\* C13 (as stated): in the summary path, an in-range observation that has
\* no preceding observation for its task contributes a delta of 0.
C13_FirstObservationZero ==
  (resp.kind = "summary" /\ resp.status = 200) =>
    \A snaps \in SnapsCTE(snapsT) :
      \A p \in FirstObservations(snaps) : p[2].delta_h = 0

\* the ledger holds one observation, 10 hours of task 1, and the summary of
\* a window that contains it reports 10 hours
C13_Witness ==
  /\ resp.kind = "summary" /\ resp.status = 200
  /\ BagCardinality(snapsT) = 1
  /\ \A r \in BagToSet(snapsT) : r.task_id = 1 /\ r.task_actual_hours = 10
  /\ \E row \in resp.rows : row.hours = 10

\* C19: for the window of the last read request and every task with no
\* observation before from and in-range observations h1..hn, the deltas of
\* the summary query and of the entries query sum to hn, the hours of the
\* last observation.
C19_FullHistoryTelescoping ==
  lastQuery # NoQuery =>
    \A snaps \in SnapsCTE(snapsT) : \A tid \in TaskIds :
      LET from   == lastQuery.from
          to     == lastQuery.toExclusive
          before == ObsBefore(snaps, tid, from)
          within == ObsWithin(snaps, tid, from, to)
          hn     == LastObs(within).h
      IN  (before = {} /\ within # {}) =>
            /\ SumOf({ x \in SummaryD(snaps, from, to, "day", offsetMin) :
                       x.task_id = tid }, DeltaOfSummary) = hn
            /\ SumOf({ x \in EntriesD(snaps, from, to) : x.task_id = tid },
                     DeltaOfEntry) = hn

\* the entries of a window that holds the whole history of task 1 list its
\* two changes, 10 hours and then 15: deltas 10 and 5
C19_Witness ==
  /\ resp.kind = "entries" /\ resp.status = 200
  /\ \A r \in BagToSet(snapsT) : r.task_id = 1 => EffectiveT(r) >= lastQuery.from
  /\ \E a \in resp.rows, b \in resp.rows :
       /\ a.task_id = 1 /\ b.task_id = 1
       /\ a.changed_at < b.changed_at
       /\ a.prev_hours = 0 /\ a.actual_hours = 10 /\ a.delta_hours = 10
       /\ b.prev_hours = 10 /\ b.actual_hours = 15 /\ b.delta_hours = 5

\* ------------------------------------------------------------------------
\* Properties of the range resolution and the bucketing (SpecRange)
\* ------------------------------------------------------------------------
\* the local calendar day (a day number) of the instant t at offset o
LocalDay(t, o) == (t + o) \div MinutesPerDay

\* the UTC instant of local midnight of a local day
LocalMidnight(day, o) == day * MinutesPerDay - o

\* a string of the shape YYYY-MM-DD
HasDateShape(t) ==
  /\ Len(t) = 10
  /\ t[5] = "-" /\ t[8] = "-"
  /\ \A i \in {1, 2, 3, 4, 6, 7, 9, 10} : IsDigit(t[i])

IsLeapYear(y) == y % 4 = 0 /\ (y % 100 # 0 \/ y % 400 = 0)

DaysInMonth(y, m) ==
  IF m = 2 THEN (IF IsLeapYear(y) THEN 29 ELSE 28)
  ELSE IF m \in {4, 6, 9, 11} THEN 30 ELSE 31

YearOf(t) == NumberOfDigits(SubSeq(t, 1, 4))

MonthOf(t) == NumberOfDigits(SubSeq(t, 6, 7))

DayOf(t) == NumberOfDigits(SubSeq(t, 9, 10))

\* the string names a day of the calendar
RealCalendarDate(s) ==
  LET t == Trim(s)
  IN  /\ HasDateShape(t)
      /\ MonthOf(t) \in 1..12
      /\ DayOf(t) \in 1..DaysInMonth(YearOf(t), MonthOf(t))

\* UTC midnight of the calendar date a string names
UtcMidnight(s) ==
  LET t == Trim(s)
  IN  DaysFromCivil(YearOf(t), MonthOf(t), DayOf(t)) * MinutesPerDay

\* C8: with bucket=day the bucket of an observation at t is the UTC instant
\* of local midnight of the local date of t: bucket <= t < bucket + 24h, two
\* observations share a bucket iff their local dates are equal, and at
\* offset -480 2024-01-02T07:59Z is in the bucket of 2024-01-01 and
\* 2024-01-02T08:00Z in the bucket of 2024-01-02.
C8_DayBucketing ==
  (ReadHandled /\ resp.status = 200 /\ lastQuery.unit = "day") =>
    \E snaps \in SnapsCTE(snapsT) :
      LET d == SummaryD(snaps, lastQuery.from, lastQuery.toExclusive, "day", offsetMin)
      IN  /\ \A x \in d :
               /\ x.bucket = LocalMidnight(LocalDay(x.t, offsetMin), offsetMin)
               /\ x.bucket <= x.t /\ x.t < x.bucket + 24 * 60
               /\ \A y \in d :
                    x.bucket = y.bucket <=> LocalDay(x.t, offsetMin) = LocalDay(y.t, offsetMin)
               /\ (offsetMin = -480 /\ x.t = Instant(2024, 1, 2, 7, 59))
                    => x.bucket = LocalMidnight(DaysFromCivil(2024, 1, 1), -480)
               /\ (offsetMin = -480 /\ x.t = Instant(2024, 1, 2, 8, 0))
                    => x.bucket = LocalMidnight(DaysFromCivil(2024, 1, 2), -480)
          /\ resp.kind = "summary" =>
               { row.bucket : row \in resp.rows } = { x.bucket : x \in d }

\* at offset -480 the summary by day of 2024-01-01..02 over the changes of
\* 07:59Z and 08:00Z of 2024-01-02 has a row for each of the two buckets
C8_Witness ==
  /\ resp.kind = "summary" /\ resp.status = 200
  /\ lastQuery.unit = "day"
  /\ offsetMin = -480
  /\ { r.task_changed_date : r \in BagToSet(snapsT) } = { T0759, T0800 }
  /\ { row.bucket : row \in resp.rows }
       = { Instant(2024, 1, 1, 8, 0), Instant(2024, 1, 2, 8, 0) }

\* C9: for from and to that name calendar dates the query runs over
\* [UTC midnight(from) - offset, UTC midnight(to) - offset + 24h), which for
\* from = to = 2024-01-01 at offset -480 is
\* [2024-01-01T08:00Z, 2024-01-02T08:00Z).
C9_RangeResolution ==
  ( /\ ReadHandled
    /\ RealCalendarDate(lastRead.from)
    /\ RealCalendarDate(lastRead.to) )
  => /\ resp.status = 200
     /\ lastQuery.from = UtcMidnight(lastRead.from) - offsetMin
     /\ lastQuery.toExclusive = UtcMidnight(lastRead.to) - offsetMin + 24 * 60
     /\ ( /\ offsetMin = -480
          /\ Trim(lastRead.from) = Ymd(2024, 1, 1)
          /\ Trim(lastRead.to) = Ymd(2024, 1, 1) )
        => /\ lastQuery.from = Instant(2024, 1, 1, 8, 0)
           /\ lastQuery.toExclusive = Instant(2024, 1, 2, 8, 0)

\* C10: a read request whose from or to does not name a calendar date is
\* answered 4xx and executes no query.
C10_MalformedDatesRejected ==
  ( /\ ReadHandled
    /\ ~ (RealCalendarDate(lastRead.from) /\ RealCalendarDate(lastRead.to)) )
  => /\ resp.status \in 400..499
     /\ lastQuery = NoQuery

\* ------------------------------------------------------------------------
\* Properties of the authorization and the validation of ingest (SpecAuth)
\* ------------------------------------------------------------------------
\* the step handles an ingest request
IngestHandled == now' # now

\* no secret is configured, or the header of the request is the secret
Authorized == syncApiKey = "" \/ lastCall'.apiKey = syncApiKey

\* C11: with a secret configured, an ingest request whose x-api-key header
\* is absent or differs from it is answered 401 and changes no table; a
\* request is processed iff no secret is configured or the header equals the
\* secret.
C11_IngestAuthorization ==
  [][ IngestHandled =>
      /\ (~ Authorized) =>
           /\ resp'.status = 401
           /\ runsT' = runsT /\ latestT' = latestT /\ snapsT' = snapsT
      /\ Authorized <=> resp'.status # 401
      /\ (Authorized /\ lastCall'.rowsField = "array" /\ lastReq'.rows # << >>) =>
           /\ resp'.status = 200
           /\ \E run \in runsT' \ runsT : run.run_id = resp'.runId ]_vars

\* with a secret configured, a request with a wrong header was answered 401
\* and the store holds the run of the authorized request before it only
C11_Witness ==
  /\ syncApiKey # ""
  /\ lastCall.apiKey = "wrong"
  /\ resp.kind = "ingest" /\ resp.status = 401
  /\ Cardinality(runsT) = 1
  /\ BagCardinality(snapsT) > 0

\* C12: an authorized ingest request whose rows field is missing, not an
\* array or an empty array is answered 400 before a transaction is opened:
\* no Run row is created (the run id sequence is not advanced) and the
\* projection and the ledger are unchanged.
C12_RowsRequired ==
  [][ ( /\ IngestHandled
        /\ Authorized
        /\ (lastCall'.rowsField # "array" \/ lastReq'.rows = << >>) )
      => /\ resp'.status = 400
         /\ runsT' = runsT /\ latestT' = latestT /\ snapsT' = snapsT
         /\ runSeq' = runSeq ]_vars

\* a body whose rows is not an array was answered 400 and the store holds
\* the run of the request before it only
C12_Witness ==
  /\ lastCall.rowsField = "notArray"
  /\ resp.kind = "ingest" /\ resp.status = 400
  /\ Cardinality(runsT) = 1
  /\ runSeq = 1

AccountCodeUnparseable ==
  /\ ReadHandled
  /\ lastRead.accountCode # << >>
  /\ ~ IsFinite(Number(lastRead.accountCode))

\* C16: a read request whose accountCode filter is not empty and does not
\* parse as a number is answered with a 4xx validation error and no query
\* result.
C16_UnparseableAccountCodeRejected ==
  AccountCodeUnparseable => (resp.status >= 400 /\ resp.status < 500)

\* C18: every read endpoint bounds its result size: whatever limit and
\* offset a request carries, latest returns at most its maximum page size,
\* entries at most its maximum page size, and summary and export at most
\* the larger of the two.
C18_ResultSizeBounded ==
  (ReadHandled /\ resp.status = 200) =>
    /\ resp.kind = "latest" => Len(resp.list) <= LatestMaxLimit
    /\ resp.kind = "entries" => Len(resp.list) <= EntriesMaxLimit
    /\ resp.kind \in { "summary", "export" } =>
         Len(resp.list) <= (IF EntriesMaxLimit > LatestMaxLimit
                            THEN EntriesMaxLimit ELSE LatestMaxLimit)

\* ------------------------------------------------------------------------
\* Properties of an ingest interleaved with reads (SpecTx)
\* ------------------------------------------------------------------------
\* the step serves a read request
ReadServed == ReadHandled' /\ ~ ReadHandled

\* the response of the step is a result of its query over the three tables
\* runs, projection, ledger of `store`
ReadOver(store) ==
  /\ resp'.kind = "summary" =>
       resp'.list \in SummaryQuery(store[3], lastQuery'.from, lastQuery'.toExclusive,
                                   lastQuery'.unit, offsetMin, << >>, << >>)
  /\ resp'.kind = "latest" =>
       resp'.list \in { r.page : r \in LatestQuery(store[2], NULL, NULL, << >>, << >>,
                                                   LatestMaxLimit, 0) }

\* C17: while an ingest call is in flight no step changes the committed
\* tables; the step that ends it leaves them unchanged or replaces them by
\* the result of the whole transaction (the Run row, all projection updates
\* and all ledger rows of all chunks); and a read served while the call is
\* in flight returns a result of its query over the tables before the call
\* or over the tables after all of its writes.
C17_NoTornReads ==
  [][ /\ (txn.open /\ txn'.open) =>
           (runsT' = runsT /\ latestT' = latestT /\ snapsT' = snapsT)
      /\ (txn.open /\ ~ txn'.open) =>
           \/ resp'.status = 500 /\ << runsT', latestT', snapsT' >> = txn.before
           \/ /\ resp'.status = 200
              /\ [ runsT |-> runsT', latestT |-> latestT', snapsT |-> snapsT',
                   failedAt |-> 0 ] = Transaction(txn.req, txn.syncTs, 0)
      /\ (txn.open /\ ReadServed /\ resp'.status = 200) =>
           LET all == Transaction(txn.req, txn.syncTs, 0)
           IN  \/ ReadOver(txn.before)
               \/ all.failedAt = 0 /\ ReadOver(<< all.runsT, all.latestT, all.snapsT >>) ]_vars

\* a summary served after the statements of the first chunk of the second
\* ingest call, which wrote a ledger row in its transaction, lists the
\* committed rows of the first call
C17_Witness ==
  /\ txn.open /\ txn.stmt >= 4
  /\ txn.view.snapsT # snapsT
  /\ runsT # {}
  /\ resp.kind = "summary" /\ resp.status = 200
  /\ Len(resp.list) > 0

\* ------------------------------------------------------------------------
\* Further properties of the ingest transaction (Spec)
\* ------------------------------------------------------------------------
\* what a posted row carries for the projection
PostedContent(r) ==
  << r.taskId, r.taskChangedDate, r.taskAssignedToUPN, r.taskAssignedTo,
     r.actualHours, r.accountCode >>

\* the rows of the batch for the task that carry a changed date
DatedRowsFor(req, tid) == { r \in RowsFor(req, tid) : r.taskChangedDate # NULL }

\* C21: a committed batch with rows of a task that has no projection row yet
\* writes one projection row for the task: the row of the batch with the
\* latest taskChangedDate of the task, wherever it stands in the batch and
\* also when other rows of the task have no (or an unparseable)
\* taskChangedDate; a row without changed date when none of them has one.
C21_BatchProjectionDedup ==
  [][ IngestCommitted =>
      \A tid \in TaskIds :
        (RowsFor(lastReq', tid) # {} /\ ~ \E l \in latestT : l.task_id = tid) =>
          /\ Cardinality({ l \in latestT' : l.task_id = tid }) = 1
          /\ \A l \in { l \in latestT' : l.task_id = tid } :
               /\ \E r \in RowsFor(lastReq', tid) : PostedContent(r) = LatestContent(l)
               /\ \A r \in DatedRowsFor(lastReq', tid) :
                    /\ l.task_changed_date # NULL
                    /\ r.taskChangedDate <= l.task_changed_date ]_vars

\* C22: of the ledger rows of one (task, effective time) the delta query
\* uses the row with the highest run id and, among rows of equal run id, the
\* one with the latest snapshot time, also when a run with a higher id
\* carries an earlier run time than a run with a lower id.
C22_CollapseTieBreak ==
  \A snaps \in SnapsCTE(snapsT) :
    \A x \in snaps :
      \A r \in BagToSet(snapsT) :
        (r.task_id = x.task_id /\ EffectiveT(r) = x.t) =>
          \/ r.run_id < x.run_id
          \/ r.run_id = x.run_id /\ r.snapshot_at <= x.snapshot_at

\* ------------------------------------------------------------------------
\* Further properties of the reports (SpecReport)
\* ------------------------------------------------------------------------
\* C23: for the window of the last read request and every task, the delta
\* query has at most one prior anchor, the task's observation with the
\* greatest effective time strictly before from; every row of d of the
\* summary/export and of the entries has from <= t < toExclusive, one row
\* per in-range observation, so the anchor contributes no delta; and the
\* previous value of an entry is the anchor's hours for the first in-range
\* observation only, the hours of the in-range observation before it for the
\* others.
C23_PriorAnchorAndRange ==
  lastQuery # NoQuery =>
    \A snaps \in SnapsCTE(snapsT) :
      LET from    == lastQuery.from
          to      == lastQuery.toExclusive
          anchors == PriorCTE(snaps, from)
          d       == SummaryD(snaps, from, to, "day", offsetMin)
          e       == EntriesD(snaps, from, to)
      IN  /\ \A tid \in TaskIds :
               /\ Cardinality({ p \in anchors : p.task_id = tid }) <= 1
               /\ ObsBefore(snaps, tid, from) # {} =>
                    { p \in anchors : p.task_id = tid }
                    = { LastObs(ObsBefore(snaps, tid, from)) }
               /\ ObsBefore(snaps, tid, from) = {} =>
                    { p \in anchors : p.task_id = tid } = {}
               /\ { x.t : x \in { x \in d : x.task_id = tid } }
                  = { r.t : r \in ObsWithin(snaps, tid, from, to) }
               /\ { x.changed_at : x \in { x \in e : x.task_id = tid } }
                  = { r.t : r \in ObsWithin(snaps, tid, from, to) }
               /\ Cardinality({ x \in d : x.task_id = tid })
                  = Cardinality(ObsWithin(snaps, tid, from, to))
               /\ Cardinality({ x \in e : x.task_id = tid })
                  = Cardinality(ObsWithin(snaps, tid, from, to))
          /\ \A x \in e :
               LET earlier == ObsWithin(snaps, x.task_id, from, x.changed_at)
                   before  == ObsBefore(snaps, x.task_id, from)
               IN  x.prev_hours = IF earlier # {} THEN LastObs(earlier).h
                                  ELSE IF before # {} THEN LastObs(before).h
                                  ELSE 0

\* the entries of 2024-01-02 list one change of task 1 whose previous hours
\* are those of the later of two observations before the window
C23_Witness ==
  /\ resp.kind = "entries" /\ resp.status = 200
  /\ \E a \in BagToSet(snapsT), b \in BagToSet(snapsT) :
       /\ a.task_id = 1 /\ b.task_id = 1
       /\ EffectiveT(a) < EffectiveT(b) /\ EffectiveT(b) < lastQuery.from
       /\ a.task_actual_hours # b.task_actual_hours
       /\ \E x \in resp.rows :
            /\ x.task_id = 1
            /\ x.prev_hours = b.task_actual_hours
            /\ x.actual_hours # b.task_actual_hours

\* ------------------------------------------------------------------------
\* Arrival order of two batches (SpecOrder)
\* ------------------------------------------------------------------------
MaxOrderRuns == 2

\* the rows of the arrival-order specification: two changes of task 1 and
\* a row of task 1 without changed date
OrderRows ==
  { PostedRow(1, T0759, 10, "ann@corp"), PostedRow(1, T0800, 15, "ann@corp"),
    PostedRow(1, NULL, 8, "ann@corp") }

\* the bodies of the arrival-order specification, with and without the run
\* time of the client
OrderRequests ==
  { [ syncedAtUtc |-> ts, rows |-> rows ] :
    ts \in { NULL, ClientRunAt },
    rows \in SeqsUpTo(OrderRows, 2) \ { << >> } }

\* a client posts a batch and the database fails no statement
IngestOrdered ==
  /\ UNCHANGED env
  /\ now < Now0 + MaxOrderRuns
  /\ \E req \in OrderRequests : PostSync("", "array", req, 0)

NextOrder == IngestOrdered

SpecOrder == Init /\ [][NextOrder]_vars

\* the tables after the handler committed the body req as run runId at the
\* server clock `clock`, over the tables of store
IngestOn(store, runId, req, clock) ==
  LET syncTs == IF req.syncedAtUtc # NULL THEN req.syncedAtUtc ELSE clock
      runRow == [ run_id |-> runId, run_at |-> syncTs, item_count |-> Len(req.rows) ]
      start  == [ runsT   |-> store[1] \cup {runRow},
                  latestT |-> store[2],
                  snapsT  |-> store[3],
                  failedAt |-> 0 ]
      tx     == RunChunks(start, chunkArray(req.rows, ChunkSize), 1, runId, syncTs, 0)
  IN  IF tx.failedAt > 0 THEN Rollback(store, tx) ELSE Commit(store, tx)

\* the tables after first and then second arrived, from the current state
InOrder(first, second) ==
  IngestOn(IngestOn(tables, runSeq + 1, first, now), runSeq + 2, second, now + 1)

\* the observations a ledger can collapse to: run and snapshot time dropped
Observations(ledgerBag) ==
  { { [ task_id |-> x.task_id, t |-> x.t, h |-> x.h,
        task_assigned_upn |-> x.task_assigned_upn,
        task_assigned_to |-> x.task_assigned_to,
        account_code |-> x.account_code ] : x \in snaps } :
    snaps \in SnapsCTE(ledgerBag) }

KeysOf(req) ==
  { << req.rows[i].taskId, req.rows[i].taskChangedDate >> : i \in 1 .. Len(req.rows) }

AllDated(req) == \A i \in 1 .. Len(req.rows) : req.rows[i].taskChangedDate # NULL

\* the ledgers of the two arrival orders hold the same observations and give
\* the same summary rows for every window and bucket unit
SameReport(ledgerAB, ledgerBA) ==
  /\ Observations(ledgerAB) = Observations(ledgerBA)
  /\ \A w \in ReportWindows, unit \in BucketUnits :
       SummaryResults(ledgerAB, w, unit) = SummaryResults(ledgerBA, w, unit)

RECURSIVE AllPages(_, _, _, _, _, _, _)
AllPages(ledgerBag, from, toExclusive, assignedToUPN, accountCodeRaw, limit, offset) ==
  UNION { IF offset + limit >= r.count THEN { r.page }
          ELSE { r.page \o rest :
                 rest \in AllPages(ledgerBag, from, toExclusive, assignedToUPN,
                                   accountCodeRaw, limit, offset + limit) } :
          r \in EntriesQuery(ledgerBag, from, toExclusive, assignedToUPN,
                             accountCodeRaw, limit, offset) }

\* the group (assignee UPN, assignee name, account code) of an entry and of
\* a summary row
EntryGroup(e) == << e.task_assigned_upn, e.task_assigned_to, e.account_code >>

SummaryGroup(x) == << x.assignedToUPN, x.assignedTo, x.accountCode >>

RECURSIVE SumEntries(_, _)
SumEntries(list, g) ==
  IF list = << >> THEN 0
  ELSE (IF EntryGroup(Head(list)) = g THEN Head(list).delta_hours ELSE 0)
       + SumEntries(Tail(list), g)

RECURSIVE SumSummary(_, _)
SumSummary(list, g) ==
  IF list = << >> THEN 0
  ELSE (IF SummaryGroup(Head(list)) = g THEN Head(list).hours ELSE 0)
       + SumSummary(Tail(list), g)

\* the page sizes of the entries requests
PageLimits == { LimitOf(raw, EntriesDefaultLimit, EntriesMaxLimit) :
                raw \in { << >>, << "1" >>, << "9" >> } }

\* C25: for every ledger state, window, bucket unit, filter pair and page
\* size, the entries collected over all pages and the rows of the summary
\* have the same groups (assignee UPN, assignee name, account code), and for
\* each group the delta_hours of its entries sum to the hours of its summary
\* rows summed over the buckets of the window.
C25_EntriesAgreeWithSummary ==
  ~ ReadHandled =>
    \A w \in QueryWindows, unit \in BucketUnits, f \in QueryFilters, limit \in PageLimits :
      LET rng == rangeFromToUtc(w[1], w[2], offsetMin)
      IN  \A entries \in AllPages(snapsT, rng.fromUtc, rng.toExclusiveUtc,
                                  f[1], f[2], limit, 0) :
            \A summary \in SummaryQuery(snapsT, rng.fromUtc, rng.toExclusiveUtc, unit,
                                        offsetMin, f[1], f[2]) :
              /\ { EntryGroup(e) : e \in Range(entries) }
                 = { SummaryGroup(x) : x \in Range(summary) }
              /\ \A g \in { EntryGroup(e) : e \in Range(entries) } :
                   SumEntries(entries, g) = SumSummary(summary, g)

\* the entries of a window were asked with one row per page, and the page
\* returned is the second of more than two; the ledger holds the changes of
\* both tasks
C25_Witness ==
  /\ resp.kind = "entries" /\ resp.status = 200
  /\ Len(resp.list) = 1 /\ resp.total > 2
  /\ \E e \in resp.rows : e.prev_hours # 0 /\ e.delta_hours # 0
  /\ { r.task_id : r \in BagToSet(snapsT) } = TaskIds

\* text contains sub, letters compared without regard to case
Contains(text, sub) ==
  \E i \in 0 .. (Len(text) - Len(sub)) :
    \A j \in 1 .. Len(sub) : Lower(text[i + j]) = Lower(sub[j])

\* the group of a summary row matches the filters of a request: its UPN
\* contains the assignedToUPN text, its account code is the number the
\* accountCode text denotes
GroupMatches(x, assignedToUPN, accountCodeRaw) ==
  /\ assignedToUPN # << >> => Contains(UpnText(x.assignedToUPN), assignedToUPN)
  /\ accountCodeRaw # << >> =>
       /\ IsFinite(Number(accountCodeRaw))
       /\ x.accountCode = Number(accountCodeRaw)

\* the row sets the summary statement can return
SummaryRowSets(ledgerBag, w, unit, assignedToUPN, accountCodeRaw) ==
  LET rng == rangeFromToUtc(w[1], w[2], offsetMin)
  IN  { Range(list) :
        list \in SummaryQuery(ledgerBag, rng.fromUtc, rng.toExclusiveUtc, unit,
                              offsetMin, assignedToUPN, accountCodeRaw) }

\* C26: for every ledger state, window, bucket unit and filter pair, the rows
\* the summary returns with the filters are exactly the rows of the
\* unfiltered summary whose group matches the filters, with the same hours
\* (so each delta is taken against the task's previous observation whatever
\* its assignee and account code).
C26_FilteredSummaryIsRestriction ==
  ~ ReadHandled =>
    \A w \in QueryWindows, unit \in BucketUnits, f \in QueryFilters :
      SummaryRowSets(snapsT, w, unit, f[1], f[2])
      = { { x \in rows : GroupMatches(x, f[1], f[2]) } :
          rows \in SummaryRowSets(snapsT, w, unit, << >>, << >>) }

\* ------------------------------------------------------------------------
\* Further properties of the range resolution and the bucketing (SpecRange)
\* ------------------------------------------------------------------------
\* the calendar date <<y, m, d>>, in the report time zone, of an instant
LocalDate(ts) == CivilFromDays((ts + offsetMin) \div MinutesPerDay)

\* C27: whatever the report offset and the bucket unit, the bucket date of
\* every line of a CSV export is the calendar date, in the report time zone,
\* on which the bucket of the line starts.
C27_CsvBucketIsLocalDate ==
  (resp.kind = "export" /\ resp.status = 200) =>
    \A list \in ExportQuery(snapsT, lastQuery.from, lastQuery.toExclusive,
                            lastQuery.unit, offsetMin, << >>, << >>) :
      resp.list = [ i \in DOMAIN list |-> CsvLine(list[i]) ] =>
        \A i \in DOMAIN list : resp.list[i].bucket = LocalDate(list[i].bucket)

\* ------------------------------------------------------------------------
\* The ledger and the projection after ingest calls (Spec)
\* ------------------------------------------------------------------------
\* the body has a row without a task id
HasRowWithoutTask(req) == \E i \in 1 .. Len(req.rows) : req.rows[i].taskId = NULL

MaxPollerRuns == 2

MaxEdits == 2

\* SINCE_DAYS, used while last_sync.json is missing
SinceDays == 30

\* what an update sets ActualHours to; NULL for an update of other fields
EditHours == { NULL, 10, 15 }

\* Read-LastSyncUtc
ReadLastSyncUtc ==
  IF poller.lastSyncUtc # NULL THEN poller.lastSyncUtc
  ELSE now - SinceDays * MinutesPerDay

\* System.ChangedDate of a task: the date of its last update
ChangedDateOf(tid) == tracker[tid][Len(tracker[tid])].revisedDate

\* the WIQL query: the tasks with [System.ChangedDate] >= the date (without
\* time) of the watermark
WiqlTasks(since) ==
  { tid \in DOMAIN tracker :
      /\ tracker[tid] # << >>
      /\ ChangedDateOf(tid) >= date_trunc("day", since) }

\* $events of a task: its updates not before the watermark that carry
\* ActualHours, in the order of their dates
RECURSIVE EventsOf(_, _)
EventsOf(updates, since) ==
  IF updates = << >> THEN << >>
  ELSE LET u == Head(updates)
       IN  (IF u.revisedDate >= since /\ u.hours # NULL THEN << u >> ELSE << >>)
           \o EventsOf(Tail(updates), since)

\* the tasks the loop does not skip: changedUtc >= SinceUtc
TasksKept(ids, since) == { tid \in ids : ChangedDateOf(tid) >= since }

UpnOf(tid) == IF tid = 1 THEN "ann@corp" ELSE "bob@corp"

\* $taskRows: one row per event, task after task
RECURSIVE TaskRowsOf(_, _)
TaskRowsOf(ids, since) ==
  IF ids = {} THEN << >>
  ELSE LET tid == CHOOSE t \in ids : \A o \in ids : t <= o
           ev  == EventsOf(tracker[tid], since)
       IN  [ i \in 1 .. Len(ev) |->
               PostedRow(tid, ev[i].revisedDate, ev[i].hours, UpnOf(tid)) ]
           \o TaskRowsOf(ids \ {tid}, since)

\* $MaxSeenUtc after the loop: the latest of the watermark, the changed
\* dates of the tasks kept and the dates of their events
MaxSeenOf(ids, since) ==
  LET seen == { since }
              \cup { ChangedDateOf(tid) : tid \in ids }
              \cup UNION { { EventsOf(tracker[tid], since)[i].revisedDate :
                             i \in 1 .. Len(EventsOf(tracker[tid], since)) } :
                           tid \in ids }
  IN  CHOOSE t \in seen : \A o \in seen : o <= t

\* someone updates a task in the tracker
TrackerEdit ==
  /\ Len(tracker[1]) + Len(tracker[2]) < MaxEdits
  /\ \E tid \in DOMAIN tracker, h \in EditHours :
       tracker' = [ tracker EXCEPT
                      ![tid] = Append(@, [ revisedDate |-> now, hours |-> h ]) ]
  /\ now' = now + 1
  /\ UNCHANGED << runsT, latestT, snapsT, runSeq, offsetMin, syncApiKey, posted,
                  lastCall, lastReq, lastRead, lastQuery, resp, txn, poller >>

\* a run starts: the watermark is read and the tracker queried; without
\* tasks the run writes the clock as the watermark and exits
PollerStart ==
  /\ poller.pc = "idle"
  /\ poller.run < MaxPollerRuns
  /\ LET since == ReadLastSyncUtc
         ids   == WiqlTasks(since)
     IN  poller' = IF ids = {}
                   THEN [ poller EXCEPT !.run = @ + 1, !.SinceUtc = since,
                                        !.MaxSeenUtc = since, !.taskIds = {},
                                        !.taskRows = << >>,
                                        !.lastSyncUtc = now, !.wrote = TRUE ]
                   ELSE [ poller EXCEPT !.run = @ + 1, !.SinceUtc = since,
                                        !.MaxSeenUtc = since, !.taskIds = ids,
                                        !.taskRows = << >>,
                                        !.pc = "fetch", !.wrote = FALSE ]
  /\ UNCHANGED << runsT, latestT, snapsT, runSeq, now, offsetMin, syncApiKey, posted,
                  lastCall, lastReq, lastRead, lastQuery, resp, txn, tracker >>

\* the details and the updates of the tasks are fetched and the rows built
PollerFetch ==
  /\ poller.pc = "fetch"
  /\ LET kept == TasksKept(poller.taskIds, poller.SinceUtc)
     IN  poller' = [ poller EXCEPT !.pc = "post",
                                   !.MaxSeenUtc = MaxSeenOf(kept, poller.SinceUtc),
                                   !.taskRows = TaskRowsOf(kept, poller.SinceUtc) ]
  /\ UNCHANGED << runsT, latestT, snapsT, runSeq, now, offsetMin, syncApiKey, posted,
                  lastCall, lastReq, lastRead, lastQuery, resp, txn, tracker >>

\* the rows are posted; Invoke-RestMethod throws on a response that is not
\* a success and the script stops, otherwise the watermark is written
PollerPost ==
  /\ poller.pc = "post"
  /\ PostSync("", "array", [ syncedAtUtc |-> now, rows |-> poller.taskRows ], 0)
  /\ poller' = IF resp'.status = 200
               THEN [ poller EXCEPT !.pc = "idle", !.wrote = TRUE,
                                    !.lastSyncUtc = poller.MaxSeenUtc ]
               ELSE [ poller EXCEPT !.pc = "idle" ]
  /\ UNCHANGED tracker

NextPoller == TrackerEdit \/ PollerStart \/ PollerFetch \/ PollerPost

SpecPoller == Init /\ [][NextPoller]_vars

\* the script is started again and again, and a run that has started goes
\* on to its end
SpecPollerLive ==
  SpecPoller /\ WF_vars(PollerStart) /\ WF_vars(PollerFetch) /\ WF_vars(PollerPost)

\* the run numbered k has ended by writing a watermark that is not earlier
\* than the one it started from nor than any change it has seen
RunWroteWatermark(k) ==
  /\ poller.run = k
  /\ poller.pc = "idle"
  /\ poller.wrote
  /\ poller.lastSyncUtc >= poller.SinceUtc
  /\ poller.lastSyncUtc >= poller.MaxSeenUtc

\* C29: with the tracker and the ingest endpoint available, every run of
\* the script that starts ends by writing a watermark that is not earlier
\* than the previous one and not earlier than any task change the run has
\* seen, also when no update of the changed tasks carries actual hours.
C29_EveryRunWritesWatermark ==
  \A k \in 1 .. MaxPollerRuns : (poller.run = k) ~> RunWroteWatermark(k)
====
